---- MODULE Spec2Model ----
(***************************************************************************)
(* Model of the two engines of the App-Builder editor that carry state     *)
(* across calls:                                                           *)
(*   - UndoRedoManager (command history: execute / undo / redo, batches,   *)
(*     textEdit combination, snapshots), specification Spec;               *)
(*   - CollaborationManager + OperationalTransform (change buffer, flush   *)
(*     timer, remote change application), specification SpecCollab.       *)
(* JavaScript indices are kept 0-based in the state (currentIndex = -1     *)
(* for "nothing applied", paths [0], [2]); TLA+ sequences are 1-based, so  *)
(* history[currentIndex] of the source is history[currentIndex + 1] here.  *)
(***************************************************************************)
EXTENDS Integers, Sequences, FiniteSets, TLC

(***************************************************************************)
(* Bounds of the model.                                                    *)
(***************************************************************************)
\* maxHistorySize as set by the constructor (100 in the source), scaled down
MaxHistorySize == 2
\* number of clock steps the model lets Date.now() advance
MaxTicks == 2
\* number of commands a caller may hand to addToBatch for one batch
MaxBatchOps == 2
\* number of snapshots kept in the snapshots map
MaxSnapshots == 1
\* number of commands the callers create in one run: with every call of the
\* manager in play (Spec), with execute / undo / redo alone (SpecEdit), and
\* with batches (SpecBatch)
MaxCommands == 2
MaxEditCommands == 4
MaxBatchCommands == 3
\* number of commands the callers create in a run with snapshots
\* (SpecSnapshot)
MaxSnapshotCommands == 3

\* number of DOM edits a collaborating client makes in one run
MaxLocalOps == 1
\* number of DOM edits the one editing client makes in a run of SpecChannel
MaxChannelOps == 2
MaxConflicts == 2
MaxResizeCommands == 2
MaxGuardedCommands == 3
MaxHistoryCalls == 7
MaxStateEdits == 2
\* number of createCommand calls of a run of the recording manager
MaxRecordedChanges == 5
HmMaxHistorySize == 100

\* the fusion window of the textEdit combine rule, in ms
CombineWindow == 1000
\* the clock advances in steps of this many ms
TickMs == 500

(***************************************************************************)
(* The document the commands act on: one container (document.body) with an *)
(* ordered list of child elements; every element has a textContent, one    *)
(* style property and one attribute (NoValue = the attribute is absent).   *)
(***************************************************************************)
Elements == {"e1", "e2"}
Container == "body"
NoNode == "null"
Vals == {0, 1}
NoValue == -1
AttrVals == {NoValue, 1}
\* elements whose style / attribute the modelled caller edits
StyleTargets == {"e1"}
\* elements the modelled caller adds with elementAdd
AddTargets == {"e2"}

InitDoc ==
    [children |-> <<"e1">>,
     text     |-> [e \in Elements |-> 0],
     style    |-> [e \in Elements |-> 0],
     attr     |-> [e \in Elements |-> NoValue]]

IndexOf(s, e) ==
    IF \E i \in 1..Len(s) : s[i] = e
    THEN CHOOSE i \in 1..Len(s) : s[i] = e
    ELSE 0

\* element.parentNode
ParentOf(s, e) == IF IndexOf(s, e) = 0 THEN NoNode ELSE Container

\* element.nextSibling
NextSiblingOf(s, e) ==
    LET i == IndexOf(s, e)
    IN IF i = 0 \/ i = Len(s) THEN NoNode ELSE s[i + 1]

\* element.remove()
RemoveNode(s, e) == SelectSeq(s, LAMBDA x : x # e)

\* parent.insertBefore(element, ref) throws NotFoundError unless ref is null or
\* a child of parent (checked before anything is changed)
CanInsertBefore(s, ref) == ref = NoNode \/ IndexOf(s, ref) # 0

\* parent.insertBefore(element, ref): element leaves its old place first; a
\* ref equal to element stands for element's next sibling
InsertBefore(s, e, ref) ==
    LET r == IF ref = e THEN NextSiblingOf(s, e) ELSE ref
        t == RemoveNode(s, e)
        k == IndexOf(t, r)
    IN IF r = NoNode
       THEN Append(t, e)
       ELSE SubSeq(t, 1, k - 1) \o <<e>> \o SubSeq(t, k, Len(t))

Reverse(s) == [i \in 1..Len(s) |-> s[Len(s) + 1 - i]]

(***************************************************************************)
(* State.                                                                  *)
(***************************************************************************)
VARIABLES
    doc,              \* the document (see InitDoc)
    history,          \* UndoRedoManager.history
    currentIndex,     \* UndoRedoManager.currentIndex
    maxHistorySize,   \* UndoRedoManager.maxHistorySize
    batchOperations,  \* UndoRedoManager.batchOperations, by batch id
    snapshots,        \* UndoRedoManager.snapshots: the recorded historyIndex values
    now,              \* Date.now()
    hung,             \* the event loop is inside a loop it never leaves
    budget,           \* number of createCommand calls the run still makes
    lastCall,         \* history variable: what the last call was and what it saw
    isRecording,      \* UndoRedoManager.isRecording
    records,          \* MutationRecords queued for stateObserver, not yet delivered
    lastCallback,     \* history variable: what the last stateObserver callback did
    \* CollaborationManager, one per client, and the server between them
    cdoc,               \* the client's materialized document
    changeBuffer,       \* CollaborationManager.changeBuffer
    pendingChanges,     \* CollaborationManager.pendingChanges (localSeq -> change)
    lastSyncedVersion,  \* CollaborationManager.lastSyncedVersion
    syncTimeout,        \* CollaborationManager.syncTimeout: a flush timer is set
    flushTimers,        \* the timers of scheduleSyncChanges set and not yet run
    readyState,         \* websocket.readyState
    inbox,              \* 'change' messages the server sent, not yet handled
    nextSeq,            \* the localSeq the client's next change gets
    sent,               \* the messages written to the socket, in order
    serverLog,          \* the changes the server accepted, in its order
    resyncRequested,    \* requestResync() was called
    applying,           \* the remote change whose handler is at its await
    editsLeft,          \* number of DOM edits the user at the client still makes
    applied,            \* history variable: the changes the document reflects
    lastRemote,         \* history variable: the last remote change handled
    \* conflict resolution of the CollaborationManager
    conflicts,          \* history variable: the 'conflict' messages handled
    resolutions,        \* the calls of sendResolution, in order
    conflictErrors,     \* the calls of notifyConflictError, in order
    conflictsLeft,      \* number of 'conflict' messages the server still sends
    \* HistoryManager and the StateManager it was constructed with
    smState,            \* StateManager.state
    hmHistory,          \* HistoryManager.history
    hmCurrentIndex,     \* HistoryManager.currentIndex
    hmBatchOperations,  \* HistoryManager.batchOperations
    hmIsRecording,      \* HistoryManager.isRecording
    hmBudget,           \* number of HistoryManager calls the run still makes
    hmLastCall          \* history variable: the last HistoryManager call

(***************************************************************************)
(* Command factories (setupCommandFactories).  A factory routine gets the  *)
(* state object st the command was created with and the document d, and    *)
(* yields its return value r ("true", "false", or "throw" for an           *)
(* exception), the document and the state object afterwards.               *)
(***************************************************************************)
Ret(r, d, st) == [r |-> r, doc |-> d, st |-> st]

TextEditExecute(st, d) ==
    Ret("true", [d EXCEPT !.text[st.element] = st.new], st)

TextEditUndo(st, d) ==
    Ret("true", [d EXCEPT !.text[st.element] = st.old], st)

\* combine(oldState, newState) of textEdit: the fused state, or NoState for null
NoState == [element |-> NoNode, new |-> 0, old |-> 0, timestamp |-> 0]

\* variant: the window taken in seconds while the timestamps are in ms
TextEditCombineSeconds(oldState, newState) ==
    IF newState.timestamp - oldState.timestamp < CombineWindow \div 1000
       /\ oldState.element = newState.element
    THEN [newState EXCEPT !.old = oldState.old]
    ELSE NoState

TextEditCombine(oldState, newState) ==
    IF newState.timestamp - oldState.timestamp < CombineWindow
       /\ oldState.element = newState.element
    THEN [newState EXCEPT !.old = oldState.old]
    ELSE NoState

StyleChangeExecute(st, d) ==
    Ret("true", [d EXCEPT !.style[st.element] = st.new], st)

StyleChangeUndo(st, d) ==
    Ret("true", [d EXCEPT !.style[st.element] = st.old], st)

ElementAddExecute(st, d) ==
    IF CanInsertBefore(d.children, st.nextSibling)
    THEN Ret("true",
             [d EXCEPT !.children = InsertBefore(d.children, st.element, st.nextSibling)],
             st)
    ELSE Ret("throw", d, st)

ElementAddUndo(st, d) ==
    Ret("true", [d EXCEPT !.children = RemoveNode(d.children, st.element)], st)

\* execute records parentNode and nextSibling in the state object itself
ElementRemoveExecute(st, d) ==
    Ret("true",
        [d EXCEPT !.children = RemoveNode(d.children, st.element)],
        [st EXCEPT !.parent = ParentOf(d.children, st.element),
                   !.nextSibling = NextSiblingOf(d.children, st.element)])

\* variant: the element is put back at the end of its parent
ElementRemoveUndoAtEnd(st, d) ==
    IF st.parent = NoNode
    THEN Ret("throw", d, st)
    ELSE Ret("true", [d EXCEPT !.children = InsertBefore(d.children, st.element, NoNode)], st)

\* parent.insertBefore on a null parent is a TypeError
ElementRemoveUndo(st, d) ==
    IF st.parent = NoNode \/ ~CanInsertBefore(d.children, st.nextSibling)
    THEN Ret("throw", d, st)
    ELSE Ret("true",
             [d EXCEPT !.children = InsertBefore(d.children, st.element, st.nextSibling)],
             st)

\* newValue === null removes the attribute, which is NoValue here as well
AttributeChangeExecute(st, d) ==
    Ret("true", [d EXCEPT !.attr[st.element] = st.new], st)

AttributeChangeUndo(st, d) ==
    Ret("true", [d EXCEPT !.attr[st.element] = st.old], st)

CommandTypes ==
    {"textEdit", "styleChange", "elementAdd", "elementRemove", "attributeChange"}

\* a factory a caller adds with registerCommand('guarded', ...): its execute
\* refuses (returns false) and leaves the document alone
GuardedExecute(st, d) == Ret("false", d, st)

GuardedUndo(st, d) == Ret("true", d, st)

FactoryExecute(type, st, d) ==
    CASE type = "textEdit"        -> TextEditExecute(st, d)
      [] type = "styleChange"     -> StyleChangeExecute(st, d)
      [] type = "elementAdd"      -> ElementAddExecute(st, d)
      [] type = "elementRemove"   -> ElementRemoveExecute(st, d)
      [] type = "attributeChange" -> AttributeChangeExecute(st, d)
      [] type = "guarded"         -> GuardedExecute(st, d)

FactoryUndo(type, st, d) ==
    CASE type = "textEdit"        -> TextEditUndo(st, d)
      [] type = "styleChange"     -> StyleChangeUndo(st, d)
      [] type = "elementAdd"      -> ElementAddUndo(st, d)
      [] type = "elementRemove"   -> ElementRemoveUndo(st, d)
      [] type = "attributeChange" -> AttributeChangeUndo(st, d)
      [] type = "guarded"         -> GuardedUndo(st, d)

\* only the textEdit factory has a combine routine
HasCombine(type) == type = "textEdit"

(***************************************************************************)
(* Commands.  createCommand(type, state) copies state into command.state   *)
(* (adding the timestamp) while execute and undo keep the state object     *)
(* they were created with (closure): the two are separate fields here.     *)
(* A batch command has its operations in ops.  command.state is read by    *)
(* combine only, so its timestamp is kept for the types that have a        *)
(* combine routine and left 0 for the others.                              *)
(***************************************************************************)
CreateCommand(type, st, t) ==
    [type    |-> type,
     state   |-> [element |-> st.element, new |-> st.new, old |-> st.old,
                  timestamp |-> IF HasCombine(type) THEN t ELSE 0],
     closure |-> st,
     ops     |-> <<>>]

NoClosure ==
    [element |-> NoNode, new |-> 0, old |-> 0, parent |-> NoNode, nextSibling |-> NoNode]

CreateBatchCommand(operations, t) ==
    [type    |-> "batch",
     state   |-> [NoState EXCEPT !.timestamp = IF HasCombine("batch") THEN t ELSE 0],
     closure |-> NoClosure,
     ops     |-> operations]

Res(r, d, c) == [r |-> r, doc |-> d, cmd |-> c]

\* the element of a one-element set: Only({F(x) : x \in {e}}) is F(e) with e
\* worked out once
Only(S) == CHOOSE v \in S : TRUE

\* operations.every(op => op.execute()) from position k on: stops at the first
\* operation that does not return true
RECURSIVE EveryExecute(_, _, _)
EveryExecute(ops, k, d) ==
    IF k > Len(ops)
    THEN [r |-> "true", doc |-> d, ops |-> ops]
    ELSE Only({ IF x.r = "true"
                THEN EveryExecute([ops EXCEPT ![k].closure = x.st], k + 1, x.doc)
                ELSE [r |-> x.r, doc |-> x.doc, ops |-> [ops EXCEPT ![k].closure = x.st]] :
                x \in {FactoryExecute(ops[k].type, ops[k].closure, d)} })

RECURSIVE EveryUndo(_, _, _)
EveryUndo(ops, k, d) ==
    IF k > Len(ops)
    THEN [r |-> "true", doc |-> d, ops |-> ops]
    ELSE Only({ IF x.r = "true"
                THEN EveryUndo([ops EXCEPT ![k].closure = x.st], k + 1, x.doc)
                ELSE [r |-> x.r, doc |-> x.doc, ops |-> [ops EXCEPT ![k].closure = x.st]] :
                x \in {FactoryUndo(ops[k].type, ops[k].closure, d)} })

\* the order in which the batch command's undo walks its operations:
\* operations.reverse() reverses the array in place
BatchUndoOrder(ops) == Reverse(ops)

\* command.execute()
CommandExecute(c, d) ==
    IF c.type = "batch"
    THEN Only({ Res(x.r, x.doc, [c EXCEPT !.ops = x.ops]) :
                x \in {EveryExecute(c.ops, 1, d)} })
    ELSE Only({ Res(x.r, x.doc, [c EXCEPT !.closure = x.st]) :
                x \in {FactoryExecute(c.type, c.closure, d)} })

\* command.undo()
CommandUndo(c, d) ==
    IF c.type = "batch"
    THEN Only({ Res(x.r, x.doc, [c EXCEPT !.ops = x.ops]) :
                x \in {EveryUndo(BatchUndoOrder(c.ops), 1, d)} })
    ELSE Only({ Res(x.r, x.doc, [c EXCEPT !.closure = x.st]) :
                x \in {FactoryUndo(c.type, c.closure, d)} })

(***************************************************************************)
(* UndoRedoManager: the calls as functions of (history, currentIndex,      *)
(* document).  Each yields the three afterwards and what happened.         *)
(***************************************************************************)
Out(k, h, i, d) == [kind |-> k, history |-> h, currentIndex |-> i, doc |-> d]

CanUndo(i) == i >= 0

CanRedo(h, i) == i < Len(h) - 1

\* variant: the entries after currentIndex are kept
DiscardRedoNever(h, i) == h

\* history.splice(currentIndex + 1) when currentIndex < history.length - 1;
\* splice counts a negative start from the end of the array
DiscardRedo(h, i) ==
    IF i < Len(h) - 1
    THEN SubSeq(h, 1, IF i + 1 >= 0 THEN i + 1
                      ELSE IF Len(h) + i + 1 >= 0 THEN Len(h) + i + 1 ELSE 0)
    ELSE h

\* variant: the oldest entry is dropped and currentIndex left as it is
LimitHistoryNoDecrement(h, i, max) ==
    IF Len(h) > max
    THEN [history |-> Tail(h), currentIndex |-> i, evicted |-> TRUE]
    ELSE [history |-> h, currentIndex |-> i, evicted |-> FALSE]

\* variant: the newest entry is dropped (pop) instead of the oldest (shift)
LimitHistoryDropNewest(h, i, max) ==
    IF Len(h) > max
    THEN [history |-> SubSeq(h, 1, Len(h) - 1), currentIndex |-> i - 1, evicted |-> TRUE]
    ELSE [history |-> h, currentIndex |-> i, evicted |-> FALSE]

\* the size limit of execute: history.shift() and currentIndex-- when the
\* push made history longer than maxHistorySize
LimitHistory(h, i, max) ==
    IF Len(h) > max
    THEN [history |-> Tail(h), currentIndex |-> i - 1, evicted |-> TRUE]
    ELSE [history |-> h, currentIndex |-> i, evicted |-> FALSE]

\* the combined state when execute finds command c combinable with the entry
\* at currentIndex of h, NoState otherwise
CombinedState(c, h, i) ==
    IF i >= 0 /\ i + 1 <= Len(h) /\ h[i + 1].type = c.type /\ HasCombine(h[i + 1].type)
    THEN TextEditCombine(h[i + 1].state, c.state)
    ELSE NoState

\* execute(command)
ManagerExecute(c, h0, i, d, max) ==
    Only({ IF combined.element # NoNode
           THEN Out("combined", [h EXCEPT ![i + 1].state = combined], i, x.doc)
           ELSE IF x.r = "true"
           THEN Only({ Out(IF l.evicted THEN "evicted" ELSE "appended",
                           l.history, l.currentIndex, x.doc) :
                       l \in {LimitHistory(Append(h, x.cmd), i + 1, max)} })
           ELSE Out(IF x.r = "throw" THEN "threw" ELSE "failed", h, i, x.doc) :
           h \in {DiscardRedo(h0, i)},
           combined \in {CombinedState(c, DiscardRedo(h0, i), i)},
           x \in {CommandExecute(c, d)} })

\* undo()
ManagerUndo(h, i, d) ==
    IF ~CanUndo(i)
    THEN Out("false", h, i, d)
    ELSE Only({ IF x.r = "true"
                THEN Out("true", [h EXCEPT ![i + 1] = x.cmd], i - 1, x.doc)
                ELSE Out(IF x.r = "throw" THEN "threw" ELSE "false",
                         [h EXCEPT ![i + 1] = x.cmd], i, x.doc) :
                x \in {CommandUndo(h[i + 1], d)} })

\* variant: redo() guarded by currentIndex <= history.length - 1, so that at
\* the end of history it reads an entry that is not there and throws
ManagerRedoPastEnd(h, i, d) ==
    IF i > Len(h) - 1
    THEN Out("false", h, i, d)
    ELSE IF i = Len(h) - 1
    THEN Out("threw", h, i, d)
    ELSE Only({ IF x.r = "true"
                THEN Out("true", [h EXCEPT ![i + 2] = x.cmd], i + 1, x.doc)
                ELSE Out(IF x.r = "throw" THEN "threw" ELSE "false",
                         [h EXCEPT ![i + 2] = x.cmd], i, x.doc) :
                x \in {CommandExecute(h[i + 2], d)} })

\* redo(); below -1 the cursor makes history[currentIndex + 1] undefined and
\* command.execute() throws
ManagerRedo(h, i, d) ==
    IF ~CanRedo(h, i)
    THEN Out("false", h, i, d)
    ELSE IF i + 2 < 1
    THEN Out("threw", h, i, d)
    ELSE Only({ IF x.r = "true"
                THEN Out("true", [h EXCEPT ![i + 2] = x.cmd], i + 1, x.doc)
                ELSE Out(IF x.r = "throw" THEN "threw" ELSE "false",
                         [h EXCEPT ![i + 2] = x.cmd], i, x.doc) :
                x \in {CommandExecute(h[i + 2], d)} })

\* the loop of setMaxHistorySize(size): history.shift() and currentIndex--
\* while history is longer than size
RECURSIVE ShiftToSize(_, _, _)
ShiftToSize(h, i, size) ==
    IF Len(h) > size
    THEN ShiftToSize(Tail(h), i - 1, size)
    ELSE [history |-> h, currentIndex |-> i]

\* restoreSnapshot(id) for a snapshot with historyIndex target: undo() while
\* currentIndex is above it, then redo() while it is below.  The loops do not
\* look at what undo() and redo() return: a call that returns false leaves
\* currentIndex where it is and the loop goes round for ever ("hang").
RECURSIVE RestoreLoop(_, _, _, _)
RestoreLoop(h, i, d, target) ==
    IF i = target
    THEN Out("true", h, i, d)
    ELSE Only({ CASE u.kind = "true"  -> RestoreLoop(u.history, u.currentIndex, u.doc, target)
                  [] u.kind = "threw" -> u
                  [] OTHER            -> Out("hang", u.history, u.currentIndex, u.doc) :
                u \in {IF i > target THEN ManagerUndo(h, i, d) ELSE ManagerRedo(h, i, d)} })

\* the combiners of setupBatchOperations
BatchCombiner(type, operations) ==
    IF type \in {"drag", "resize"}
    THEN IF Len(operations) > 0 THEN <<operations[Len(operations)]>> ELSE <<>>
    ELSE operations

(***************************************************************************)
(* What a caller hands to createCommand for a document d: the state of an  *)
(* edit of d, with the old value read from d.                              *)
(***************************************************************************)
St(e, new, old, par, sib) ==
    [element |-> e, new |-> new, old |-> old, parent |-> par, nextSibling |-> sib]

Inputs(d) ==
    UNION {{[type |-> "textEdit", st |-> St(e, v, d.text[e], NoNode, NoNode)] :
                v \in Vals \ {d.text[e]}} : e \in Elements}
    \cup UNION {{[type |-> "styleChange", st |-> St(e, v, d.style[e], NoNode, NoNode)] :
                v \in Vals \ {d.style[e]}} : e \in StyleTargets}
    \cup UNION {{[type |-> "attributeChange", st |-> St(e, v, d.attr[e], NoNode, NoNode)] :
                v \in AttrVals \ {d.attr[e]}} : e \in StyleTargets}
    \cup {[type |-> "elementAdd", st |-> St(e, 0, 0, Container, sib)] :
                e \in AddTargets, sib \in Elements \cup {NoNode}}
    \cup {[type |-> "elementRemove", st |-> St(e, 0, 0, NoNode, NoNode)] :
                e \in Elements}

\* the command adds an element that is not in the document, before a child of
\* the container or at its end, or removes one that is in it
Proper(in, d) ==
    /\ in.type = "elementAdd" =>
          /\ IndexOf(d.children, in.st.element) = 0
          /\ CanInsertBefore(d.children, in.st.nextSibling)
    /\ in.type = "elementRemove" => IndexOf(d.children, in.st.element) # 0

(***************************************************************************)
(* The stateObserver (setupStateTracking): a MutationObserver on           *)
(* document.body with childList, attributes, characterData and subtree.    *)
(* A DOM operation queues its MutationRecords; they are delivered to the   *)
(* callback in a microtask, after the running script has ended and before  *)
(* any other task.  The records modelled are those of the operations on    *)
(* the child list of the container and on the attribute of an element;     *)
(* textContent and style act through text nodes and the style attribute,   *)
(* which the document above does not hold.  by is a history field: the     *)
(* call whose DOM operation queued the record.                             *)
(***************************************************************************)
AttributesRecord(e, by) ==
    [type |-> "attributes", target |-> e, addedNodes |-> << >>,
     removedNodes |-> << >>, by |-> by]

ChildListRecord(added, removed, by) ==
    [type |-> "childList", target |-> Container, addedNodes |-> added,
     removedNodes |-> removed, by |-> by]

\* element.setAttribute(attribute, v) queues a record whether or not the
\* value changes; element.removeAttribute(attribute) (v = NoValue) queues one
\* only when the attribute is there
SetAttributeRecords(e, v, d, by) ==
    IF v = NoValue /\ d.attr[e] = NoValue
    THEN << >>
    ELSE << AttributesRecord(e, by) >>

\* element.remove() queues a record when the element has a parent
RemoveRecords(e, d, by) ==
    IF IndexOf(d.children, e) # 0
    THEN << ChildListRecord(<< >>, <<e>>, by) >>
    ELSE << >>

\* parent.insertBefore(element, ref): an element that has a parent is removed
\* from it first (one record) and then inserted (one record), also when it
\* ends where it was
InsertBeforeRecords(e, ref, d, by) ==
    IF ~CanInsertBefore(d.children, ref)
    THEN << >>
    ELSE RemoveRecords(e, d, by) \o << ChildListRecord(<<e>>, << >>, by) >>

\* the records the execute routine of a factory queues on document d
ExecuteRecords(type, st, d, by) ==
    CASE type = "attributeChange" -> SetAttributeRecords(st.element, st.new, d, by)
      [] type = "elementAdd"      ->
             InsertBeforeRecords(st.element, st.nextSibling, d, by)
      [] type = "elementRemove"   -> RemoveRecords(st.element, d, by)
      [] type = "guarded"         -> << >>

\* the records the undo routine of a factory queues on document d
UndoRecords(type, st, d, by) ==
    CASE type = "attributeChange" -> SetAttributeRecords(st.element, st.old, d, by)
      [] type = "elementAdd"      -> RemoveRecords(st.element, d, by)
      [] type = "elementRemove"   ->
             IF st.parent = NoNode
             THEN << >>
             ELSE InsertBeforeRecords(st.element, st.nextSibling, d, by)
      [] type = "guarded"         -> << >>

\* the command types whose DOM operations the records above cover
RecordedTypes == {"attributeChange", "elementAdd", "elementRemove", "guarded"}

\* the records undo() queues
ManagerUndoRecords(h, i, d) ==
    IF CanUndo(i)
    THEN UndoRecords(h[i + 1].type, h[i + 1].closure, d, "undo")
    ELSE << >>

\* the records redo() queues
ManagerRedoRecords(h, i, d) ==
    IF CanRedo(h, i) /\ i + 2 >= 1
    THEN ExecuteRecords(h[i + 2].type, h[i + 2].closure, d, "redo")
    ELSE << >>

\* `let command;` of handleMutation
NoCommand ==
    [type |-> "none", state |-> NoState, closure |-> NoClosure, ops |-> << >>]

\* what a run of the callback carries from one call of execute to the next:
\* the manager and the document, the records queued meanwhile, the command
\* variable of handleMutation, whether the last execute pushed it, whether
\* an exception ended the run, and the numbers of execute calls and pushes
Handling(h, i, d) ==
    [history |-> h, currentIndex |-> i, doc |-> d, records |-> << >>,
     command |-> NoCommand, pushed |-> FALSE, threw |-> FALSE,
     executes |-> 0, pushes |-> 0]

\* this.execute(command) inside the callback; execute has no try, so an
\* exception of command.execute() ends the callback
ExecuteIn(s, c, max) ==
    IF s.threw
    THEN s
    ELSE Only({ [history      |-> o.history,
                 currentIndex |-> o.currentIndex,
                 doc          |-> o.doc,
                 records      |-> s.records
                                  \o ExecuteRecords(c.type, c.closure, s.doc,
                                                    "execute"),
                 command      |-> IF o.kind \in {"appended", "evicted"}
                                  THEN o.history[o.currentIndex + 1]
                                  ELSE c,
                 pushed       |-> o.kind \in {"appended", "evicted"},
                 threw        |-> o.kind = "threw",
                 executes     |-> s.executes + 1,
                 pushes       |-> s.pushes
                                  + IF o.kind \in {"appended", "evicted"}
                                    THEN 1 ELSE 0] :
                o \in {ManagerExecute(c, s.history, s.currentIndex, s.doc,
                                      max)} })

\* mutation.addedNodes.forEach(node => { command = createCommand('elementAdd',
\* {parent: mutation.target, element: node, nextSibling: node.nextSibling});
\* this.execute(command); }) from node k on
RECURSIVE ForEachAdded(_, _, _, _, _)
ForEachAdded(nodes, k, s, max, t) ==
    IF k > Len(nodes) \/ s.threw
    THEN s
    ELSE ForEachAdded(nodes, k + 1,
             ExecuteIn(s, CreateCommand("elementAdd",
                              [element |-> nodes[k], new |-> 0, old |-> 0,
                               parent |-> Container,
                               nextSibling |->
                                   NextSiblingOf(s.doc.children, nodes[k])],
                              t),
                       max),
             max, t)

\* mutation.removedNodes.forEach(node => { command =
\* createCommand('elementRemove', {element: node}); this.execute(command); })
RECURSIVE ForEachRemoved(_, _, _, _, _)
ForEachRemoved(nodes, k, s, max, t) ==
    IF k > Len(nodes) \/ s.threw
    THEN s
    ELSE ForEachRemoved(nodes, k + 1,
             ExecuteIn(s, CreateCommand("elementRemove",
                              [element |-> nodes[k], new |-> 0, old |-> 0,
                               parent |-> NoNode, nextSibling |-> NoNode],
                              t),
                       max),
             max, t)

\* `if (command) this.execute(command)` at the end of handleMutation: for a
\* childList record the command variable holds the command the last forEach
\* step created and executed; it is the same object, so when both calls push
\* it the two entries hold the same state
ExecuteCommandVariable(s, max) ==
    IF s.threw \/ s.command.type = "none"
    THEN s
    ELSE Only({ IF s.pushed /\ r.pushed /\ r.currentIndex >= 1
                THEN [r EXCEPT !.history[r.currentIndex] =
                                   r.history[r.currentIndex + 1]]
                ELSE r :
                r \in {ExecuteIn(s, s.command, max)} })

\* handleMutation(mutation); observe() asks for no old values, so
\* mutation.oldValue is null
HandleMutation(mutation, s, max, t) ==
    CASE mutation.type = "attributes" ->
             ExecuteCommandVariable(
                 [s EXCEPT !.pushed = FALSE,
                           !.command =
                               CreateCommand("attributeChange",
                                   [element |-> mutation.target,
                                    new |-> s.doc.attr[mutation.target],
                                    old |-> NoValue, parent |-> NoNode,
                                    nextSibling |-> NoNode], t)],
                 max)
      [] mutation.type = "childList" ->
             ExecuteCommandVariable(
                 ForEachRemoved(mutation.removedNodes, 1,
                     ForEachAdded(mutation.addedNodes, 1,
                         [s EXCEPT !.pushed = FALSE, !.command = NoCommand],
                         max, t),
                     max, t),
                 max)

\* mutations.forEach(mutation => this.handleMutation(mutation)) from record k
RECURSIVE HandleMutations(_, _, _, _, _)
HandleMutations(mutations, k, s, max, t) ==
    IF k > Len(mutations) \/ s.threw
    THEN s
    ELSE HandleMutations(mutations, k + 1,
                         HandleMutation(mutations[k], s, max, t), max, t)

\* the number of changes in the records: every added node, removed node and
\* attribute change is one
RECURSIVE Changes(_)
Changes(mutations) ==
    IF mutations = << >>
    THEN 0
    ELSE (IF Head(mutations).type = "childList"
          THEN Len(Head(mutations).addedNodes)
               + Len(Head(mutations).removedNodes)
          ELSE 1)
         + Changes(Tail(mutations))

NoCallback == [by |-> "none", changes |-> 0, executes |-> 0, pushes |-> 0]

BatchIds == {"b1"}
BatchTypes == {"default", "drag", "resize"}
\* proper and docAt are history fields: the document when the first command
\* was added, and whether every command added was proper for the document
\* its predecessors leave, that document being untouched since
NoBatch ==
    [open |-> FALSE, type |-> "default", operations |-> <<>>,
     proper |-> TRUE, docAt |-> InitDoc]

(***************************************************************************)
(* lastCall is a history variable: it records the last call that changed   *)
(* the manager, the document, currentIndex and history.length that call    *)
(* found (doc, index, len) and how it ended (kind).  For an undo() that    *)
(* directly follows an execute or endBatch it keeps what that call had     *)
(* recorded and how it had ended (prevOp, prev).  For a textEdit it holds  *)
(* whether the entry at currentIndex was a textEdit of the same element    *)
(* stamped less than CombineWindow before (fusible), and the text the      *)
(* element had before the first edit of a run of executes (base, NoValue   *)
(* when the run did not start with this variable watching).                *)
(***************************************************************************)
NoCall ==
    [op |-> "none", kind |-> "none", type |-> "none", el |-> NoNode, doc |-> InitDoc,
     index |-> -1, len |-> 0, proper |-> FALSE, n |-> 0,
     prevOp |-> "none", prev |-> "none", fusible |-> FALSE, base |-> NoValue,
     notified |-> FALSE, target |-> -1]

\* the calls that end in notifyHistoryChange(): execute after the push, undo
\* and redo before return true, clearHistory
Notifies(op, kind) ==
    \/ op \in {"execute", "endBatch"} /\ kind \in {"appended", "evicted"}
    \/ op \in {"undo", "redo"} /\ kind = "true"
    \/ op = "clearHistory"

Fusible(in) ==
    /\ in.type = "textEdit"
    /\ currentIndex >= 0
    /\ currentIndex + 1 <= Len(history)
    /\ history[currentIndex + 1].type = "textEdit"
    /\ history[currentIndex + 1].state.element = in.st.element
    /\ now - history[currentIndex + 1].state.timestamp < CombineWindow

BaseText(in, kind) ==
    IF in.type # "textEdit"
    THEN NoValue
    ELSE IF kind = "combined"
    THEN IF lastCall.op = "execute" /\ lastCall.type = "textEdit"
            /\ lastCall.el = in.st.element
            /\ lastCall.kind \in {"appended", "evicted", "combined"}
         THEN lastCall.base
         ELSE NoValue
    ELSE doc.text[in.st.element]

ExecuteCall(in, kind) ==
    [NoCall EXCEPT !.op = "execute", !.kind = kind, !.type = in.type,
                   !.el = in.st.element, !.doc = doc, !.index = currentIndex,
                   !.len = Len(history), !.proper = Proper(in, doc), !.n = 1,
                   !.fusible = Fusible(in), !.base = BaseText(in, kind),
                   !.notified = Notifies("execute", kind)]

EndBatchCall(batch, kind) ==
    [NoCall EXCEPT !.op = "endBatch", !.kind = kind, !.type = batch.type,
                   !.doc = doc, !.index = currentIndex, !.len = Len(history),
                   !.proper = batch.proper /\ doc = batch.docAt,
                   !.n = Len(batch.operations),
                   !.notified = Notifies("endBatch", kind)]

UndoCall(kind) ==
    IF lastCall.op \in {"execute", "endBatch"}
    THEN [lastCall EXCEPT !.op = "undo", !.kind = kind,
                          !.prevOp = lastCall.op, !.prev = lastCall.kind,
                          !.notified = Notifies("undo", kind)]
    ELSE [NoCall EXCEPT !.op = "undo", !.kind = kind,
                        !.notified = Notifies("undo", kind)]

OtherCall(op, kind) ==
    [NoCall EXCEPT !.op = op, !.kind = kind, !.notified = Notifies(op, kind)]

urVars ==
    <<doc, history, currentIndex, maxHistorySize, batchOperations, snapshots,
      now, hung, budget, lastCall, isRecording, records, lastCallback>>

(***************************************************************************)
(* CollaborationManager and OperationalTransform                           *)
(* (ComponentCommunicationManager.js).  Two clients edit one document      *)
(* through a server that puts the changes it receives in one order and     *)
(* sends each to the other client.  The document is the child list of the  *)
(* root: a sequence of nodes, a path [i] names the child at 0-based index  *)
(* i and [i, k] a descendant of that child.                                *)
(***************************************************************************)
Clients == {"A", "B"}
Other(c) == IF c = "A" THEN "B" ELSE "A"
\* the node a client inserts carries the client's mark: X for A, Y for B
NodeOf(c) == IF c = "A" THEN "X" ELSE "Y"
NoColor == "none"
NewColor == "red"
Node(name, color) == [name |-> name, color |-> color]
EmptyDoc == << >>
FullDoc == << Node("n0", NoColor), Node("n1", NoColor),
              Node("n2", NoColor), Node("n3", NoColor) >>
\* a document that ends at the child of index 2
ShortDoc == SubSeq(FullDoc, 1, 3)
InitDocs == {EmptyDoc, ShortDoc, FullDoc}
\* the child indices the edits of the model address
PathIndexes == {0, 2}
\* the paths of the model: a child and a descendant of a child
Paths == { <<i>> : i \in PathIndexes } \cup { <<i, 0>> : i \in PathIndexes }
ChangeTypes == {"insert", "delete", "update", "attribute"}

InsertAt(d, i, n) == SubSeq(d, 1, i) \o <<n>> \o SubSeq(d, i + 1, Len(d))
DeleteAt(d, i) == SubSeq(d, 1, i) \o SubSeq(d, i + 2, Len(d))
UpdateAt(d, i, v) == [d EXCEPT ![i + 1] = Node(d[i + 1].name, v)]

\* the outcome of an apply: ok = FALSE is a thrown PathNotFound
Applied(d) == [ok |-> TRUE, doc |-> d]
PathNotFound(d) == [ok |-> FALSE, doc |-> d]

\* applyInsert(path, value): a new child named value at the index of the path
ApplyInsert(path, value, d) ==
    IF Len(path) = 1 /\ path[1] <= Len(d)
    THEN Applied(InsertAt(d, path[1], Node(value, NoColor)))
    ELSE PathNotFound(d)

\* applyDelete(path): the child at the index of the path leaves the document
ApplyDelete(path, d) ==
    IF Len(path) = 1 /\ path[1] < Len(d)
    THEN Applied(DeleteAt(d, path[1]))
    ELSE PathNotFound(d)

\* applyUpdate(path, value): the node under the path takes the value
ApplyUpdate(path, value, d) ==
    IF path[1] < Len(d)
    THEN Applied(UpdateAt(d, path[1], value))
    ELSE PathNotFound(d)

\* applyAttributeChange(path, attributes)
ApplyAttributeChange(path, attributes, d) ==
    IF path[1] < Len(d)
    THEN Applied(UpdateAt(d, path[1], attributes))
    ELSE PathNotFound(d)

\* applyChange(change): dispatch on the type; any other type falls through
\* the switch and leaves the document as it is
ApplyChange(change, d) ==
    CASE change.type = "insert" -> ApplyInsert(change.path, change.value, d)
      [] change.type = "delete" -> ApplyDelete(change.path, d)
      [] change.type = "update" -> ApplyUpdate(change.path, change.value, d)
      [] change.type = "attribute" ->
            ApplyAttributeChange(change.path, change.value, d)
      [] OTHER -> Applied(d)

\* OperationalTransform.transform(change, pendingChanges)
Transform(change, pending) == change

\* createChange(mutation): the change record of a local DOM mutation; ctx is
\* a history field, the ids of the changes the document held at that moment
CreateChange(c, type, path, value, seq, ctx) ==
    [id |-> <<c, seq>>, type |-> type, path |-> path, value |-> value,
     author |-> c, localSeq |-> seq, ctx |-> ctx]

\* the DOM mutations a user can make on document d: (type, path, value)
Mutations(c, d) ==
    { <<"insert", <<i>>, NodeOf(c)>> : i \in {j \in PathIndexes : j <= Len(d)} }
    \cup { <<"delete", <<i>>, NoColor>> : i \in {j \in PathIndexes : j < Len(d)} }
    \cup { <<"update", p, NewColor>> : p \in {q \in Paths : q[1] < Len(d)} }

\* the values of the pendingChanges map
PendingValues(c) == { pendingChanges[c][k] : k \in DOMAIN pendingChanges[c] }

\* variant: the message carries the base version 0 instead of the client's
\* lastSyncedVersion
ChangeSetNoVersion(c, changes) ==
    [type |-> "changes", changes |-> changes, version |-> 0, author |-> c]

\* sendChanges(changes): the 'changes' message of a flush
ChangeSet(c, changes) ==
    [type |-> "changes", changes |-> changes,
     version |-> lastSyncedVersion[c], author |-> c]

\* the server: each change of an accepted message takes the next version and
\* goes to the other client as a 'change' message
RECURSIVE Broadcast(_, _, _)
Broadcast(changes, author, version) ==
    IF changes = << >> THEN << >>
    ELSE << [type |-> "change", change |-> Head(changes), author |-> author,
             version |-> version + 1] >>
         \o Broadcast(Tail(changes), author, version + 1)

NoChange == CreateChange("none", "none", << >>, "none", 0, {})
NoRemote == [client |-> "none", change |-> NoChange, transformed |-> NoChange,
             before |-> EmptyDoc, after |-> EmptyDoc, ok |-> TRUE,
             overDelete |-> FALSE]

\* no remote change is being applied
NoMessage == [type |-> "none", change |-> NoChange, author |-> "none",
              version |-> 0]
NoApplying == [active |-> FALSE, message |-> NoMessage, ok |-> TRUE]

collabVars == << cdoc, changeBuffer, pendingChanges, lastSyncedVersion,
                 syncTimeout, flushTimers, readyState, inbox, nextSeq, sent,
                 serverLog, resyncRequested, applying, editsLeft, applied,
                 lastRemote >>

conflictVars == << conflicts, resolutions, conflictErrors, conflictsLeft >>

\* the manager before any 'conflict' message, with n such messages to come
InitConflict(n) ==
    /\ conflicts = [c \in Clients |-> {}]
    /\ resolutions = [c \in Clients |-> << >>]
    /\ conflictErrors = [c \in Clients |-> << >>]
    /\ conflictsLeft = n

(***************************************************************************)
(* The HistoryManager and its StateManager.                                *)
(***************************************************************************)
hmVars == << smState, hmHistory, hmCurrentIndex, hmBatchOperations,
             hmIsRecording, hmBudget, hmLastCall >>

\* StateManager.serializeState: the components, selection and canvas of the
\* state, here one value
SerializeState(state) == [components |-> state]

\* StateManager.restoreState(stateSnapshot) reads stateSnapshot.state and then
\* its components: it throws when the argument has no state field
RestoreState(stateSnapshot) ==
    IF "state" \in DOMAIN stateSnapshot
    THEN [threw |-> FALSE, state |-> stateSnapshot.state.components]
    ELSE [threw |-> TRUE, state |-> 0]

\* HistoryManager.applyState(historyItem): the outcome of
\* stateManager.restoreState(historyItem.state)
ApplyState(historyItem) == RestoreState(historyItem.state)

\* the names of the actions a caller passes to addToBatch
ActionNames == {"a1", "a2"}

\* an action as a caller builds it, with the state serialized at the call
Action(name, state) ==
    [type |-> "ACTION", name |-> name, operations |-> << >>,
     state |-> SerializeState(state)]

\* pushState(action): the future of the cursor is dropped, the action
\* appended, and the oldest entry shifted out when the size limit is passed
PushState(h, i, action) ==
    Only({ IF Len(kept) > HmMaxHistorySize
           THEN [history |-> Tail(kept), currentIndex |-> i]
           ELSE [history |-> kept, currentIndex |-> i + 1] :
           kept \in { Append(SubSeq(h, 1, i + 1), action) } })

NoHmCall == [op |-> "none", threw |-> FALSE, history |-> << >>,
             currentIndex |-> -1, batchOperations |-> << >>, state |-> 0]

\* what a call saw when it began
HmCall(op, threw) ==
    [op |-> op, threw |-> threw, history |-> hmHistory,
     currentIndex |-> hmCurrentIndex, batchOperations |-> hmBatchOperations,
     state |-> smState]

\* the managers after construction, where saveInitialState has pushed the
\* initial state; with n = 0 no HistoryManager was constructed
InitHistoryManager(n) ==
    /\ smState = 0
    /\ hmHistory = IF n = 0 THEN << >>
                   ELSE << [type |-> "INITIAL_STATE", name |-> "none",
                            operations |-> << >>,
                            state |-> SerializeState(0)] >>
    /\ hmCurrentIndex = IF n = 0 THEN -1 ELSE 0
    /\ hmBatchOperations = << >>
    /\ hmIsRecording = FALSE
    /\ hmBudget = n
    /\ hmLastCall = NoHmCall

\* the users make no edit
NoEdits == [c \in Clients |-> 0]

\* setupWebSocket / setupChangeTracking: both clients hold the same document
\* d; the user at client c will make edits[c] edits
InitCollab(d, edits) ==
    /\ cdoc = [c \in Clients |-> d]
    /\ changeBuffer = [c \in Clients |-> << >>]
    /\ pendingChanges = [c \in Clients |-> << >>]
    /\ lastSyncedVersion = [c \in Clients |-> 0]
    /\ syncTimeout = [c \in Clients |-> FALSE]
    /\ flushTimers = [c \in Clients |-> 0]
    /\ readyState = [c \in Clients |-> "CONNECTING"]
    /\ inbox = [c \in Clients |-> << >>]
    /\ nextSeq = [c \in Clients |-> 1]
    /\ sent = [c \in Clients |-> << >>]
    /\ serverLog = << >>
    /\ resyncRequested = [c \in Clients |-> FALSE]
    /\ applying = [c \in Clients |-> NoApplying]
    /\ editsLeft = edits
    /\ applied = [c \in Clients |-> {}]
    /\ lastRemote = NoRemote

Ids(S) == { ch.id : ch \in S }

\* history: the document of the client is the context of the remote change
\* plus exactly one delete of the child the remote change addresses
OverDelete(c, change) ==
    \E del \in applied[c] :
        /\ del.type = "delete"
        /\ del.path = <<change.path[1]>>
        /\ del.id \notin change.ctx
        /\ Ids(applied[c]) \ {del.id} = change.ctx

UnshiftLost(buffer, changes) == buffer

UnshiftReversed(buffer, changes) ==
    [i \in 1..Len(changes) |-> changes[Len(changes) + 1 - i]] \o buffer

\* changeBuffer.unshift(...changes)
Unshift(buffer, changes) == changes \o buffer

IdleAlways(c) == TRUE

\* the event loop runs one task of a client to its end before it starts the
\* next: while the continuation of handleRemoteChange is due (the applies do
\* not suspend), no other handler of that client starts
Idle(c) == ~applying[c].active

NextMessageNewest(q) == q[Len(q)]

\* websocket.onmessage: the messages reach handleMessage in the order the
\* socket received them
NextMessage(q) == Head(q)

\* websocket.onopen
SocketOpen(c) ==
    /\ Idle(c)
    /\ readyState[c] = "CONNECTING"
    /\ readyState' = [readyState EXCEPT ![c] = "OPEN"]
    /\ UNCHANGED << cdoc, changeBuffer, pendingChanges, lastSyncedVersion,
                    syncTimeout, flushTimers, inbox, nextSeq, sent, serverLog,
                    resyncRequested, applying, editsLeft, applied,
                    lastRemote >>
    /\ UNCHANGED << urVars, conflictVars, hmVars >>

\* websocket.onclose: setupWebSocket runs once, a closed socket stays closed
SocketClose(c) ==
    /\ Idle(c)
    /\ readyState[c] = "OPEN"
    /\ readyState' = [readyState EXCEPT ![c] = "CLOSED"]
    /\ UNCHANGED << cdoc, changeBuffer, pendingChanges, lastSyncedVersion,
                    syncTimeout, flushTimers, inbox, nextSeq, sent, serverLog,
                    resyncRequested, applying, editsLeft, applied,
                    lastRemote >>
    /\ UNCHANGED << urVars, conflictVars, hmVars >>

\* scheduleSyncChanges(): if (!this.syncTimeout) a timer is set and its handle
\* kept in syncTimeout; otherwise nothing happens
ScheduleSyncChanges(timeout, timers) ==
    IF ~timeout
    THEN [syncTimeout |-> TRUE, flushTimers |-> timers + 1]
    ELSE [syncTimeout |-> timeout, flushTimers |-> timers]

\* a user edits the DOM; the changeObserver calls handleDOMChanges, which
\* creates the change and hands it to queueChanges: the change joins
\* changeBuffer and scheduleSyncChanges sets the timer unless one is set
LocalEdit(c) ==
    /\ Idle(c)
    /\ editsLeft[c] > 0
    /\ editsLeft' = [editsLeft EXCEPT ![c] = @ - 1]
    /\ \E m \in Mutations(c, cdoc[c]) :
       \E ch \in { CreateChange(c, m[1], m[2], m[3], nextSeq[c],
                                Ids(applied[c])) } :
          /\ cdoc' = [cdoc EXCEPT ![c] = ApplyChange(ch, cdoc[c]).doc]
          /\ changeBuffer' = [changeBuffer EXCEPT ![c] = Append(@, ch)]
          /\ applied' = [applied EXCEPT ![c] = @ \cup {ch}]
    /\ \E t \in { ScheduleSyncChanges(syncTimeout[c], flushTimers[c]) } :
          /\ syncTimeout' = [syncTimeout EXCEPT ![c] = t.syncTimeout]
          /\ flushTimers' = [flushTimers EXCEPT ![c] = t.flushTimers]
    /\ nextSeq' = [nextSeq EXCEPT ![c] = @ + 1]
    /\ UNCHANGED << pendingChanges, lastSyncedVersion, readyState, inbox,
                    sent, serverLog, resyncRequested, applying, lastRemote >>
    /\ UNCHANGED << urVars, conflictVars, hmVars >>

\* syncChanges(): an empty buffer returns at once; otherwise the buffer is
\* emptied and its content sent as one 'changes' message; when sendMessage
\* rejects (the socket is not open), the catch puts the changes back at the
\* front of the buffer and calls requestResync.  out holds the message
\* written to the socket, if any
Flush(c) ==
    IF changeBuffer[c] = << >>
    THEN [changeBuffer |-> changeBuffer[c], out |-> << >>, failed |-> FALSE]
    ELSE IF readyState[c] = "OPEN"
    THEN [changeBuffer |-> << >>,
          out |-> << ChangeSet(c, changeBuffer[c]) >>, failed |-> FALSE]
    ELSE [changeBuffer |-> Unshift(<< >>, changeBuffer[c]), out |-> << >>,
          failed |-> TRUE]

\* the changes of the messages in out, in order
RECURSIVE ChangesOf(_)
ChangesOf(out) ==
    IF out = << >> THEN << >> ELSE Head(out).changes \o ChangesOf(Tail(out))

\* the effect of syncChanges() at client c, with the flush timer left as
\* timer and timers of them still to run: the server accepts what was written
\* to the socket and sends it on; requestResync() cancels the flush timer
Synced(c, timer, timers) ==
    \E o \in { Flush(c) } :
       /\ changeBuffer' = [changeBuffer EXCEPT ![c] = o.changeBuffer]
       /\ sent' = [sent EXCEPT ![c] = @ \o o.out]
       /\ serverLog' = serverLog \o ChangesOf(o.out)
       /\ inbox' = [inbox EXCEPT ![Other(c)] =
                      @ \o Broadcast(ChangesOf(o.out), c, Len(serverLog))]
       /\ resyncRequested' = [resyncRequested EXCEPT ![c] = @ \/ o.failed]
       /\ syncTimeout' = [syncTimeout EXCEPT ![c] = timer /\ ~o.failed]
       /\ flushTimers' = [flushTimers EXCEPT ![c] =
                            IF o.failed THEN 0 ELSE timers]

\* the timer of scheduleSyncChanges fires: syncChanges(), then
\* syncTimeout = null
SyncChanges(c) ==
    /\ Idle(c)
    /\ flushTimers[c] > 0
    /\ Synced(c, FALSE, flushTimers[c] - 1)
    /\ UNCHANGED << cdoc, pendingChanges, lastSyncedVersion, readyState,
                    nextSeq, applying, editsLeft, applied, lastRemote >>
    /\ UNCHANGED << urVars, conflictVars, hmVars >>

\* a periodic timer that does not call syncChanges()
SyncIntervalIdle(c) ==
    /\ Idle(c)
    /\ UNCHANGED collabVars
    /\ UNCHANGED << urVars, conflictVars, hmVars >>

\* syncChanges() called by the periodic timer of startSyncInterval
SyncInterval(c) ==
    /\ Idle(c)
    /\ Synced(c, syncTimeout[c], flushTimers[c])
    /\ UNCHANGED << cdoc, pendingChanges, lastSyncedVersion, readyState,
                    nextSeq, applying, editsLeft, applied, lastRemote >>
    /\ UNCHANGED << urVars, conflictVars, hmVars >>

\* websocket.onmessage with a 'change' message: handleMessage dispatches to
\* handleRemoteChange, which transforms the change against the values of
\* pendingChanges and applies it; what follows the await is still to run
HandleRemoteChange(c) ==
    /\ Idle(c)
    /\ readyState[c] = "OPEN"
    /\ inbox[c] # << >>
    /\ \E message \in { NextMessage(inbox[c]) } :
       \E transformedChange \in
              { Transform(message.change, PendingValues(c)) } :
       \E r \in { ApplyChange(transformedChange, cdoc[c]) } :
          /\ lastRemote' = [client |-> c, change |-> message.change,
                            transformed |-> transformedChange,
                            before |-> cdoc[c], after |-> r.doc,
                            ok |-> r.ok,
                            overDelete |-> OverDelete(c, message.change)]
          /\ cdoc' = [cdoc EXCEPT ![c] = r.doc]
          /\ applied' = [applied EXCEPT ![c] =
                           IF r.ok THEN @ \cup {message.change} ELSE @]
          /\ applying' = [applying EXCEPT ![c] =
                            [active |-> TRUE, message |-> message,
                             ok |-> r.ok]]
          /\ inbox' = [inbox EXCEPT ![c] =
                         SelectSeq(@, LAMBDA m : m # message)]
    /\ UNCHANGED << changeBuffer, pendingChanges, lastSyncedVersion,
                    syncTimeout, flushTimers, readyState, nextSeq, sent,
                    serverLog, resyncRequested, editsLeft >>
    /\ UNCHANGED << urVars, conflictVars, hmVars >>

\* handleRemoteChange after the await: the version of the message becomes
\* lastSyncedVersion; when the apply threw, the catch calls requestResync,
\* which cancels the flush timer
FinishRemoteChange(c) ==
    /\ applying[c].active
    /\ applying' = [applying EXCEPT ![c] = NoApplying]
    /\ IF applying[c].ok
       THEN /\ lastSyncedVersion' =
                 [lastSyncedVersion EXCEPT ![c] = applying[c].message.version]
            /\ UNCHANGED << resyncRequested, syncTimeout, flushTimers >>
       ELSE /\ resyncRequested' = [resyncRequested EXCEPT ![c] = TRUE]
            /\ syncTimeout' = [syncTimeout EXCEPT ![c] = FALSE]
            /\ flushTimers' = [flushTimers EXCEPT ![c] = 0]
            /\ UNCHANGED lastSyncedVersion
    /\ UNCHANGED << cdoc, changeBuffer, pendingChanges, readyState, inbox,
                    nextSeq, sent, serverLog, editsLeft, applied,
                    lastRemote >>
    /\ UNCHANGED << urVars, conflictVars, hmVars >>

(***************************************************************************)
(* Conflict resolution of the CollaborationManager.                        *)
(***************************************************************************)

\* setupConflictResolution: the conflict types with a registered strategy
ConflictStrategies == {"text", "structure", "attribute"}

\* the conflictType of a 'conflict' message
ConflictTypes == ConflictStrategies \cup {"style"}

\* the conflictData of a 'conflict' message: {local, remote}, or absent
NoConflictData == [present |-> FALSE, local |-> "none", remote |-> "none"]
ConflictData ==
    { [present |-> TRUE, local |-> "local", remote |-> "remote"],
      NoConflictData }

\* what a strategy call comes to: a value, or an error thrown or rejected
Returned(value) == [threw |-> FALSE, value |-> value]
Threw == [threw |-> TRUE, value |-> "none"]

\* OperationalTransform.resolveTextConflict, resolveStructureConflict
OTResolveTextConflict(local, remote) == local
OTResolveStructureConflict(local, remote) == local

\* mergeAttributes: a merged value, or an error
MergeAttributes(local, remote) == { Returned("merged"), Threw }

\* the outcomes of the registered strategy of conflictType on conflictData;
\* destructuring absent conflictData throws
Strategy(conflictType, conflictData) ==
    IF ~conflictData.present THEN { Threw }
    ELSE IF conflictType = "text"
    THEN { Returned(OTResolveTextConflict(conflictData.local,
                                          conflictData.remote)) }
    ELSE IF conflictType = "structure"
    THEN { Returned(OTResolveStructureConflict(conflictData.local,
                                               conflictData.remote)) }
    ELSE MergeAttributes(conflictData.local, conflictData.remote)

SettleResolveAnyway(changeId, result) ==
    [resolutions |-> << [changeId |-> changeId, resolution |-> result.value] >>,
     errors |-> IF result.threw THEN << changeId >> ELSE << >>]

\* handleConflict after await strategy(conflictData): sendResolution with the
\* value the strategy returned, or, in the catch, notifyConflictError
Settle(changeId, result) ==
    IF result.threw
    THEN [resolutions |-> << >>, errors |-> << changeId >>]
    ELSE [resolutions |-> << [changeId |-> changeId,
                              resolution |-> result.value] >>,
          errors |-> << >>]

\* websocket.onmessage with a 'conflict' message: handleConflict looks the
\* strategy up and, when there is one, calls it; what follows the await is
\* still to run.  Each message names a change of its own
HandleConflict(c) ==
    /\ Idle(c)
    /\ readyState[c] = "OPEN"
    /\ conflictsLeft > 0
    /\ conflictsLeft' = conflictsLeft - 1
    /\ \E conflictType \in ConflictTypes, conflictData \in ConflictData :
       \E result \in IF conflictType \in ConflictStrategies
                     THEN Strategy(conflictType, conflictData)
                     ELSE { Returned("none") } :
          conflicts' = [conflicts EXCEPT ![c] = @ \cup
                          { [changeId |-> conflictsLeft,
                             conflictType |-> conflictType,
                             conflictData |-> conflictData,
                             result |-> result,
                             settled |-> conflictType \notin ConflictStrategies] }]
    /\ UNCHANGED << resolutions, conflictErrors >>
    /\ UNCHANGED << urVars, collabVars, hmVars >>

\* handleConflict after the await, for one of the strategy calls under way
SettleConflict(c) ==
    /\ \E k \in { k \in conflicts[c] : ~k.settled } :
       \E o \in { Settle(k.changeId, k.result) } :
          /\ conflicts' = [conflicts EXCEPT ![c] =
                             (@ \ {k}) \cup { [k EXCEPT !.settled = TRUE] }]
          /\ resolutions' = [resolutions EXCEPT ![c] = @ \o o.resolutions]
          /\ conflictErrors' = [conflictErrors EXCEPT ![c] = @ \o o.errors]
    /\ UNCHANGED conflictsLeft
    /\ UNCHANGED << urVars, collabVars, hmVars >>

(***************************************************************************)
(* The calls of the HistoryManager.                                        *)
(***************************************************************************)

\* a call made on the HistoryManager by its user
HmCalled(op, threw) ==
    /\ hmBudget > 0
    /\ hmBudget' = hmBudget - 1
    /\ hmLastCall' = HmCall(op, threw)
    /\ UNCHANGED << urVars, collabVars, conflictVars >>

\* the user changes the state held by the StateManager
HmEdit ==
    /\ hmBudget > 0
    /\ smState < MaxStateEdits
    /\ smState' = smState + 1
    /\ UNCHANGED << hmHistory, hmCurrentIndex, hmBatchOperations,
                    hmIsRecording, hmBudget, hmLastCall >>
    /\ UNCHANGED << urVars, collabVars, conflictVars >>

\* startBatch()
HmStartBatch ==
    /\ HmCalled("startBatch", FALSE)
    /\ hmIsRecording' = TRUE
    /\ hmBatchOperations' = << >>
    /\ UNCHANGED << smState, hmHistory, hmCurrentIndex >>

\* addToBatch(action)
HmAddToBatch ==
    /\ HmCalled("addToBatch", FALSE)
    /\ \E name \in ActionNames :
       \E action \in { Action(name, smState) } :
          IF hmIsRecording
          THEN /\ hmBatchOperations' = Append(hmBatchOperations, action)
               /\ UNCHANGED << hmHistory, hmCurrentIndex >>
          ELSE /\ \E p \in { PushState(hmHistory, hmCurrentIndex, action) } :
                     /\ hmHistory' = p.history
                     /\ hmCurrentIndex' = p.currentIndex
               /\ UNCHANGED hmBatchOperations
    /\ UNCHANGED << smState, hmIsRecording >>

\* commitBatch(batchName)
HmCommitBatch ==
    /\ HmCalled("commitBatch", FALSE)
    /\ IF ~hmIsRecording
       THEN UNCHANGED << hmHistory, hmCurrentIndex, hmBatchOperations,
                         hmIsRecording >>
       ELSE /\ \E p \in { PushState(hmHistory, hmCurrentIndex,
                            [type |-> "BATCH_OPERATION", name |-> "batch",
                             operations |-> hmBatchOperations,
                             state |-> SerializeState(smState)]) } :
                  /\ hmHistory' = p.history
                  /\ hmCurrentIndex' = p.currentIndex
            /\ hmIsRecording' = FALSE
            /\ hmBatchOperations' = << >>
    /\ UNCHANGED smState

\* cancelBatch()
HmCancelBatch ==
    /\ HmCalled("cancelBatch", FALSE)
    /\ hmIsRecording' = FALSE
    /\ hmBatchOperations' = << >>
    /\ UNCHANGED << smState, hmHistory, hmCurrentIndex >>

\* undo(): the cursor moves first, then the state of the entry it reaches
\* is applied; when applyState throws, the call rejects with the cursor moved
HmUndo ==
    /\ IF hmCurrentIndex > 0
       THEN \E r \in { ApplyState(hmHistory[hmCurrentIndex]) } :
               /\ HmCalled("undo", r.threw)
               /\ hmCurrentIndex' = hmCurrentIndex - 1
               /\ smState' = IF r.threw THEN smState ELSE r.state
       ELSE /\ HmCalled("undo", FALSE)
            /\ UNCHANGED << smState, hmCurrentIndex >>
    /\ UNCHANGED << hmHistory, hmBatchOperations, hmIsRecording >>

\* redo()
HmRedo ==
    /\ IF hmCurrentIndex < Len(hmHistory) - 1
       THEN \E r \in { ApplyState(hmHistory[hmCurrentIndex + 2]) } :
               /\ HmCalled("redo", r.threw)
               /\ hmCurrentIndex' = hmCurrentIndex + 1
               /\ smState' = IF r.threw THEN smState ELSE r.state
       ELSE /\ HmCalled("redo", FALSE)
            /\ UNCHANGED << smState, hmCurrentIndex >>
    /\ UNCHANGED << hmHistory, hmBatchOperations, hmIsRecording >>

(***************************************************************************)
(* The calls of the UndoRedoManager.                                       *)
(***************************************************************************)

\* the manager as the constructor leaves it, with history size limit max and
\* a caller that will create n commands
InitManager(max, n) ==
    /\ doc = InitDoc
    /\ history = <<>>
    /\ currentIndex = -1
    /\ maxHistorySize = max
    /\ batchOperations = [b \in BatchIds |-> NoBatch]
    /\ snapshots = {}
    /\ now = 0
    /\ hung = FALSE
    /\ budget = n
    /\ lastCall = NoCall
    /\ isRecording = FALSE
    /\ records = << >>
    /\ lastCallback = NoCallback

\* no record is waiting for the callback of stateObserver: the callback runs
\* in a microtask, before the next call from outside
Settled == records = << >>

\* the call queues the records rs: they are delivered when the call has
\* returned, and the callback drops them unless isRecording is set
Observed(rs) ==
    /\ records' = IF isRecording THEN rs ELSE << >>
    /\ UNCHANGED << isRecording, lastCallback >>

\* createCommand('guarded', state) followed by execute(command)
ExecuteGuarded ==
    /\ ~hung
    /\ budget > 0
    /\ budget' = budget - 1
    /\ \E in \in { [type |-> "guarded",
                     st |-> St(e, 0, 0, NoNode, NoNode)] : e \in Elements } :
          \E o \in {ManagerExecute(CreateCommand(in.type, in.st, now),
                                    history, currentIndex, doc, maxHistorySize)} :
             /\ history' = o.history
             /\ currentIndex' = o.currentIndex
             /\ doc' = o.doc
             /\ lastCall' = ExecuteCall(in, o.kind)
    /\ UNCHANGED <<maxHistorySize, batchOperations, snapshots, now, hung>>
    /\ UNCHANGED << isRecording, records, lastCallback >>
    /\ UNCHANGED << collabVars, conflictVars, hmVars >>

\* the sizes a caller passes to setMaxHistorySize
Sizes == 0..MaxHistorySize

\* setMaxHistorySize(size)
SetMaxHistorySize ==
    /\ ~hung
    /\ \E size \in Sizes :
       \E o \in {ShiftToSize(history, currentIndex, size)} :
          /\ maxHistorySize' = size
          /\ history' = o.history
          /\ currentIndex' = o.currentIndex
    /\ lastCall' = OtherCall("setMaxHistorySize", "done")
    /\ UNCHANGED <<doc, budget, batchOperations, snapshots, now, hung>>
    /\ UNCHANGED << isRecording, records, lastCallback >>
    /\ UNCHANGED << collabVars, conflictVars, hmVars >>

\* createCommand(type, state) followed by execute(command)
Execute ==
    /\ ~hung
    /\ Settled
    /\ budget > 0
    /\ budget' = budget - 1
    /\ \E in \in Inputs(doc) :
          /\ isRecording => in.type \in RecordedTypes
          /\ Observed(ExecuteRecords(in.type, in.st, doc, "execute"))
          /\ \E o \in {ManagerExecute(CreateCommand(in.type, in.st, now),
                                    history, currentIndex, doc,
                                    maxHistorySize)} :
                /\ history' = o.history
                /\ currentIndex' = o.currentIndex
                /\ doc' = o.doc
                /\ lastCall' = ExecuteCall(in, o.kind)
    /\ UNCHANGED <<maxHistorySize, batchOperations, snapshots, now, hung>>
    /\ UNCHANGED << collabVars, conflictVars, hmVars >>

Undo ==
    /\ ~hung
    /\ Settled
    /\ \E o \in {ManagerUndo(history, currentIndex, doc)} :
          /\ history' = o.history
          /\ currentIndex' = o.currentIndex
          /\ doc' = o.doc
          /\ lastCall' = UndoCall(o.kind)
    /\ UNCHANGED <<budget, maxHistorySize, batchOperations, snapshots, now, hung>>
    /\ Observed(ManagerUndoRecords(history, currentIndex, doc))
    /\ UNCHANGED << collabVars, conflictVars, hmVars >>

Redo ==
    /\ ~hung
    /\ Settled
    /\ \E o \in {ManagerRedo(history, currentIndex, doc)} :
          /\ history' = o.history
          /\ currentIndex' = o.currentIndex
          /\ doc' = o.doc
          /\ lastCall' = OtherCall("redo", o.kind)
    /\ UNCHANGED <<budget, maxHistorySize, batchOperations, snapshots, now, hung>>
    /\ Observed(ManagerRedoRecords(history, currentIndex, doc))
    /\ UNCHANGED << collabVars, conflictVars, hmVars >>

\* startRecording(), called while history holds commands of the types whose
\* records are modelled
StartRecording ==
    /\ ~hung
    /\ Settled
    /\ ~isRecording
    /\ \A k \in 1..Len(history) : history[k].type \in RecordedTypes
    /\ isRecording' = TRUE
    /\ lastCall' = OtherCall("startRecording", "done")
    /\ UNCHANGED <<doc, history, currentIndex, maxHistorySize, batchOperations,
                   snapshots, now, hung, budget, records, lastCallback>>
    /\ UNCHANGED << collabVars, conflictVars, hmVars >>

\* what the editor does to the document outside the manager: the DOM
\* operation of a proper command on an attribute or on the child list, with
\* no command created
DomEdits(d) ==
    { in \in Inputs(d) :
         /\ in.type \in {"attributeChange", "elementAdd", "elementRemove"}
         /\ Proper(in, d) }

\* the editor changes the document while the manager records
DomEdit ==
    /\ ~hung
    /\ Settled
    /\ isRecording
    /\ budget > 0
    /\ \E in \in DomEdits(doc) :
          /\ doc' = FactoryExecute(in.type, in.st, doc).doc
          /\ records' = ExecuteRecords(in.type, in.st, doc, "edit")
    /\ lastCall' = OtherCall("edit", "done")
    /\ UNCHANGED <<history, currentIndex, maxHistorySize, batchOperations,
                   snapshots, now, hung, budget, isRecording, lastCallback>>
    /\ UNCHANGED << collabVars, conflictVars, hmVars >>

\* the callback of stateObserver with the records queued since the last one:
\* if (this.isRecording) mutations.forEach(mutation =>
\* this.handleMutation(mutation)); every added node, removed node and
\* attribute change costs one createCommand
ObserverCallback ==
    /\ ~hung
    /\ ~Settled
    /\ isRecording
    /\ budget >= Changes(records)
    /\ budget' = budget - Changes(records)
    /\ \E s \in {HandleMutations(records, 1,
                                  Handling(history, currentIndex, doc),
                                  maxHistorySize, now)} :
          /\ history' = s.history
          /\ currentIndex' = s.currentIndex
          /\ doc' = s.doc
          /\ records' = s.records
          /\ lastCallback' = [by |-> records[1].by,
                              changes |-> Changes(records),
                              executes |-> s.executes,
                              pushes |-> s.pushes]
    /\ lastCall' = OtherCall("handleMutation", "done")
    /\ UNCHANGED <<maxHistorySize, batchOperations, snapshots, now, hung,
                   isRecording>>
    /\ UNCHANGED << collabVars, conflictVars, hmVars >>

\* startBatch(batchId, type)
StartBatch ==
    /\ ~hung
    /\ \E b \in BatchIds, t \in BatchTypes :
          batchOperations' =
              [batchOperations EXCEPT ![b] = [NoBatch EXCEPT !.open = TRUE, !.type = t]]
    /\ lastCall' = NoCall
    /\ UNCHANGED <<budget, doc, history, currentIndex, maxHistorySize, snapshots, now, hung>>
    /\ UNCHANGED << isRecording, records, lastCallback >>
    /\ UNCHANGED << collabVars, conflictVars, hmVars >>

\* the document as it will be when the operations gathered so far have run
Projected(d, operations) == EveryExecute(operations, 1, d).doc

\* createCommand(type, state) followed by addToBatch(batchId, command); the
\* command is the next step of the gesture, its old value the one the
\* previous step leaves
AddToBatch ==
    /\ ~hung
    /\ budget > 0
    /\ budget' = budget - 1
    /\ \E b \in BatchIds :
          /\ batchOperations[b].open
          /\ Len(batchOperations[b].operations) < MaxBatchOps
          /\ \E p \in {Projected(doc, batchOperations[b].operations)} :
                \E in \in Inputs(p) :
                   batchOperations' =
                       [batchOperations EXCEPT
                           ![b].operations = Append(@, CreateCommand(in.type, in.st, now)),
                           ![b].docAt = IF batchOperations[b].operations = <<>>
                                        THEN doc ELSE @,
                           ![b].proper = /\ @
                                         /\ Proper(in, p)
                                         /\ \/ batchOperations[b].operations = <<>>
                                            \/ doc = batchOperations[b].docAt]
    /\ lastCall' = NoCall
    /\ UNCHANGED <<doc, history, currentIndex, maxHistorySize, snapshots, now, hung>>
    /\ UNCHANGED << isRecording, records, lastCallback >>
    /\ UNCHANGED << collabVars, conflictVars, hmVars >>

\* endBatch(batchId)
EndBatch ==
    /\ ~hung
    /\ ~isRecording
    /\ \E b \in BatchIds :
          /\ batchOperations[b].open
          /\ \E batch \in {batchOperations[b]} :
             \E operations \in {BatchCombiner(batch.type, batch.operations)} :
             \E o \in {ManagerExecute(CreateBatchCommand(operations, now),
                                       history, currentIndex, doc, maxHistorySize)} :
                IF Len(operations) > 0
                THEN /\ history' = o.history
                     /\ currentIndex' = o.currentIndex
                     /\ doc' = o.doc
                     /\ lastCall' = EndBatchCall(batch, o.kind)
                ELSE /\ UNCHANGED <<history, currentIndex, doc>>
                     /\ lastCall' = NoCall
          /\ batchOperations' = [batchOperations EXCEPT ![b] = NoBatch]
    /\ UNCHANGED <<budget, maxHistorySize, snapshots, now, hung>>
    /\ UNCHANGED << isRecording, records, lastCallback >>
    /\ UNCHANGED << collabVars, conflictVars, hmVars >>

\* createSnapshot()
CreateSnapshot ==
    /\ ~hung
    /\ Cardinality(snapshots \cup {currentIndex}) <= MaxSnapshots
    /\ snapshots' = snapshots \cup {currentIndex}
    /\ lastCall' = NoCall
    /\ UNCHANGED <<budget, doc, history, currentIndex, maxHistorySize, batchOperations, now, hung>>
    /\ UNCHANGED << isRecording, records, lastCallback >>
    /\ UNCHANGED << collabVars, conflictVars, hmVars >>

\* restoreSnapshot(snapshotId) for a known id
RestoreSnapshot ==
    /\ ~hung
    /\ ~isRecording
    /\ \E target \in snapshots :
          \E o \in {RestoreLoop(history, currentIndex, doc, target)} :
             /\ history' = o.history
             /\ currentIndex' = o.currentIndex
             /\ doc' = o.doc
             /\ hung' = (o.kind = "hang")
             /\ lastCall' = [OtherCall("restoreSnapshot", o.kind)
                                 EXCEPT !.target = target]
    /\ UNCHANGED <<budget, maxHistorySize, batchOperations, snapshots, now>>
    /\ UNCHANGED << isRecording, records, lastCallback >>
    /\ UNCHANGED << collabVars, conflictVars, hmVars >>

\* clearHistory()
ClearHistory ==
    /\ ~hung
    /\ history' = <<>>
    /\ currentIndex' = -1
    /\ lastCall' = OtherCall("clearHistory", "done")
    /\ UNCHANGED <<budget, doc, maxHistorySize, batchOperations, snapshots, now, hung>>
    /\ UNCHANGED << isRecording, records, lastCallback >>
    /\ UNCHANGED << collabVars, conflictVars, hmVars >>

\* time passes
Tick ==
    /\ ~hung
    /\ now < MaxTicks * TickMs
    /\ now' = now + TickMs
    /\ UNCHANGED <<budget, lastCall, doc, history, currentIndex, maxHistorySize, batchOperations,
                   snapshots, hung>>
    /\ UNCHANGED << isRecording, records, lastCallback >>
    /\ UNCHANGED << collabVars, conflictVars, hmVars >>

(***************************************************************************)
(* Specifications.  Spec has a caller that uses every call of the manager; *)
(* the size limit is any value from 1 to MaxHistorySize.  SpecEdit has a   *)
(* caller that edits, undoes and redoes while time passes; SpecBatch one   *)
(* that gathers commands in batches.                                       *)
(***************************************************************************)
vars == <<urVars, collabVars, conflictVars, hmVars>>

Init ==
    /\ \E max \in 1..MaxHistorySize : InitManager(max, MaxCommands)
    /\ InitCollab(EmptyDoc, NoEdits)
    /\ InitConflict(0)
    /\ InitHistoryManager(0)

Next ==
    \/ Execute
    \/ Undo
    \/ Redo
    \/ StartBatch
    \/ AddToBatch
    \/ EndBatch
    \/ CreateSnapshot
    \/ RestoreSnapshot
    \/ ClearHistory
    \/ Tick

Spec == Init /\ [][Next]_vars

InitEdit ==
    /\ InitManager(MaxHistorySize, MaxEditCommands)
    /\ InitCollab(EmptyDoc, NoEdits)
    /\ InitConflict(0)
    /\ InitHistoryManager(0)

NextEdit ==
    \/ Execute
    \/ Undo
    \/ Redo
    \/ Tick

SpecEdit == InitEdit /\ [][NextEdit]_vars

InitBatch ==
    /\ InitManager(MaxHistorySize, MaxBatchCommands)
    /\ InitCollab(EmptyDoc, NoEdits)
    /\ InitConflict(0)
    /\ InitHistoryManager(0)

NextBatch ==
    \/ StartBatch
    \/ AddToBatch
    \/ EndBatch
    \/ Execute
    \/ Undo
    \/ Redo

SpecBatch == InitBatch /\ [][NextBatch]_vars

\* a caller that edits, undoes, redoes and takes and restores snapshots
InitSnapshot ==
    /\ InitManager(MaxHistorySize, MaxSnapshotCommands)
    /\ InitCollab(EmptyDoc, NoEdits)
    /\ InitConflict(0)
    /\ InitHistoryManager(0)

NextSnapshot ==
    \/ Execute
    \/ Undo
    \/ Redo
    \/ CreateSnapshot
    \/ RestoreSnapshot

SpecSnapshot == InitSnapshot /\ [][NextSnapshot]_vars

\* two collaborating clients and the server; the undo history stays unused
InitCollabSpec ==
    /\ InitManager(MaxHistorySize, 0)
    /\ \E d \in InitDocs : InitCollab(d, [c \in Clients |-> MaxLocalOps])
    /\ InitConflict(0)
    /\ InitHistoryManager(0)

NextCollab ==
    \E c \in Clients :
        \/ SocketOpen(c)
        \/ SocketClose(c)
        \/ LocalEdit(c)
        \/ SyncChanges(c)
        \/ SyncInterval(c)
        \/ HandleRemoteChange(c)
        \/ FinishRemoteChange(c)

SpecCollab == InitCollabSpec /\ [][NextCollab]_vars

\* conflict resolution: the server sends MaxConflicts 'conflict' messages
InitConflictSpec ==
    /\ InitManager(MaxHistorySize, 0)
    /\ InitCollab(EmptyDoc, NoEdits)
    /\ InitConflict(MaxConflicts)
    /\ InitHistoryManager(0)

NextConflict ==
    \E c \in Clients :
        \/ SocketOpen(c)
        \/ SocketClose(c)
        \/ HandleConflict(c)
        \/ SettleConflict(c)

SpecConflict == InitConflictSpec /\ [][NextConflict]_vars

\* the HistoryManager, constructed on a fresh StateManager
InitHistory ==
    /\ InitManager(MaxHistorySize, 0)
    /\ InitCollab(EmptyDoc, NoEdits)
    /\ InitConflict(0)
    /\ InitHistoryManager(MaxHistoryCalls)

NextHistory ==
    \/ HmEdit
    \/ HmStartBatch
    \/ HmAddToBatch
    \/ HmCommitBatch
    \/ HmCancelBatch
    \/ HmUndo
    \/ HmRedo

SpecHistory == InitHistory /\ [][NextHistory]_vars

\* the manager with a caller that changes the size limit
InitResize ==
    /\ InitManager(MaxHistorySize, MaxResizeCommands)
    /\ InitCollab(EmptyDoc, NoEdits)
    /\ InitConflict(0)
    /\ InitHistoryManager(0)

NextResize ==
    \/ Execute
    \/ Undo
    \/ Redo
    \/ SetMaxHistorySize

SpecResize == InitResize /\ [][NextResize]_vars

\* the manager with a caller that also executes commands that refuse
InitGuarded ==
    /\ InitManager(MaxHistorySize, MaxGuardedCommands)
    /\ InitCollab(EmptyDoc, NoEdits)
    /\ InitConflict(0)
    /\ InitHistoryManager(0)

NextGuarded ==
    \/ Execute
    \/ ExecuteGuarded
    \/ Undo
    \/ Redo

SpecGuarded == InitGuarded /\ [][NextGuarded]_vars

\* the manager recording the editor's changes of the document
InitRecord ==
    /\ InitManager(MaxHistorySize, MaxRecordedChanges)
    /\ InitCollab(EmptyDoc, NoEdits)
    /\ InitConflict(0)
    /\ InitHistoryManager(0)

NextRecord ==
    \/ StartRecording
    \/ DomEdit
    \/ ObserverCallback
    \/ Execute
    \/ Undo
    \/ Redo

SpecRecord == InitRecord /\ [][NextRecord]_vars

\* the sync channel with one busy client: A makes MaxChannelOps edits, B
\* makes MaxLocalOps, on a document that starts empty
InitChannel ==
    /\ InitManager(MaxHistorySize, 0)
    /\ InitCollab(EmptyDoc, [c \in Clients |-> IF c = "A" THEN MaxChannelOps
                                                      ELSE MaxLocalOps])
    /\ InitConflict(0)
    /\ InitHistoryManager(0)

SpecChannel == InitChannel /\ [][NextCollab]_vars

\* the channel with the scheduling of the event loop: a timer that is set
\* fires (the timer of scheduleSyncChanges, the periodic one of
\* startSyncInterval), and the continuation of an await runs
SpecFlush ==
    /\ InitChannel
    /\ [][NextCollab]_vars
    /\ \A c \in Clients :
          /\ WF_vars(SyncChanges(c))
          /\ WF_vars(SyncInterval(c))
          /\ WF_vars(FinishRemoteChange(c))

(***************************************************************************)
(* Properties of the UndoRedoManager.                                      *)
(***************************************************************************)
Appends == {"appended", "evicted"}

\* C4, as claimed: execute(command) followed by one undo() gives back the
\* document and currentIndex the execute found, for every command type and
\* every document (checked for proper commands that execute took)
C4_ExecuteUndoAlways ==
    (/\ lastCall.op = "undo"
     /\ lastCall.prevOp = "execute"
     /\ lastCall.prev \in {"appended", "evicted", "combined"}
     /\ lastCall.proper)
    => (doc = lastCall.doc /\ currentIndex = lastCall.index)

\* C4, amended: when execute(command) appends command as a new entry (it is
\* not fused into the entry at currentIndex and no entry is evicted) and the
\* command is proper, one undo() right after returns true and gives back the
\* document (text, style, attribute, children and their order) and
\* currentIndex the execute found
C4_ExecuteUndoInverse ==
    (/\ lastCall.op = "undo"
     /\ lastCall.prevOp = "execute"
     /\ lastCall.prev = "appended"
     /\ lastCall.proper)
    => (lastCall.kind = "true" /\ doc = lastCall.doc /\ currentIndex = lastCall.index)

\* an elementRemove of an element that had a next sibling was executed and
\* undone
C4_Witness ==
    /\ lastCall.op = "undo"
    /\ lastCall.prevOp = "execute"
    /\ lastCall.prev = "appended"
    /\ lastCall.proper
    /\ lastCall.type = "elementRemove"
    /\ NextSiblingOf(lastCall.doc.children, lastCall.el) # NoNode
    /\ doc = lastCall.doc

\* C5, as claimed: endBatch of a batch of two commands, of any batch type,
\* adds exactly one history entry, and one undo() right after it gives back
\* the document endBatch found: both commands are inverted, never just one
C5_BatchUndoneAsOne ==
    /\ (lastCall.op = "endBatch" /\ lastCall.n = 2 /\ lastCall.proper)
          => (/\ lastCall.kind \in Appends
              /\ currentIndex = Len(history) - 1
              /\ history[Len(history)].type = "batch")
    /\ (/\ lastCall.op = "undo"
        /\ lastCall.prevOp = "endBatch"
        /\ lastCall.prev \in Appends
        /\ lastCall.n = 2
        /\ lastCall.proper)
          => (lastCall.kind = "true" /\ doc = lastCall.doc)

\* C6: a textEdit executed while the entry at currentIndex is a textEdit of
\* the same element stamped less than 1000 ms earlier is fused into that
\* entry (no entry is added, currentIndex stays), and one undo() right after
\* sets the element's text to what it was before the first edit of the entry
C6_TextEditsCombine ==
    /\ (lastCall.op = "execute" /\ lastCall.fusible)
          => (/\ lastCall.kind = "combined"
              /\ currentIndex = lastCall.index
              /\ Len(history) = currentIndex + 1)
    /\ (/\ lastCall.op = "undo"
        /\ lastCall.prevOp = "execute"
        /\ lastCall.prev = "combined"
        /\ lastCall.base # NoValue)
          => (/\ lastCall.kind = "true"
              /\ currentIndex = lastCall.index - 1
              /\ doc.text[lastCall.el] = lastCall.base)

\* two edits were fused and undone: the text is the one before the first
\* edit, which is not the text between the two edits
C6_Witness ==
    /\ lastCall.op = "undo"
    /\ lastCall.prevOp = "execute"
    /\ lastCall.prev = "combined"
    /\ lastCall.fusible
    /\ lastCall.base # NoValue
    /\ doc.text[lastCall.el] = lastCall.base
    /\ lastCall.doc.text[lastCall.el] # lastCall.base

\* C8: currentIndex is an integer from -1 to history.length - 1, and -1 when
\* history is empty
C8_CursorInRange ==
    /\ currentIndex \in Int
    /\ -1 <= currentIndex
    /\ currentIndex <= Len(history) - 1
    /\ (history = <<>> => currentIndex = -1)

\* the size limit has just evicted an entry and the cursor is on the last one
C8_Witness ==
    /\ lastCall.kind = "evicted"
    /\ history # <<>>
    /\ currentIndex = Len(history) - 1

\* C9: right after an execute that appends, the entries that were after the
\* old currentIndex are gone, the new command is the last entry,
\* currentIndex = history.length - 1 and canRedo() is false
C9_AppendDiscardsRedo ==
    (lastCall.op \in {"execute", "endBatch"} /\ lastCall.kind \in Appends)
    => (/\ currentIndex = Len(history) - 1
        /\ ~CanRedo(history, currentIndex)
        /\ lastCall.kind = "appended" => Len(history) = lastCall.index + 2
        /\ history[Len(history)].type
             = (IF lastCall.op = "endBatch" THEN "batch" ELSE lastCall.type)
        /\ lastCall.op = "execute"
             => history[Len(history)].closure.element = lastCall.el)

\* an execute appended while there were entries to redo
C9_Witness ==
    /\ lastCall.op = "execute"
    /\ lastCall.kind = "appended"
    /\ lastCall.index < lastCall.len - 1
    /\ ~CanRedo(history, currentIndex)

\* C10: history never holds more than maxHistorySize entries; a step in
\* which execute evicts drops exactly the oldest entry, keeps the others in
\* order, puts the new command last and leaves currentIndex on it
C10_BoundedHistory ==
    /\ [](Len(history) <= maxHistorySize)
    /\ [][(lastCall'.op = "execute" /\ lastCall'.kind = "evicted" /\ lastCall' # lastCall)
            => (/\ Len(history') = maxHistorySize
                /\ SubSeq(history', 1, Len(history') - 1) = Tail(history)
                /\ history'[Len(history')].type = lastCall'.type
                /\ history'[Len(history')].closure.element = lastCall'.el
                /\ currentIndex' = Len(history') - 1)]_vars

\* an execute has just evicted the oldest of maxHistorySize entries
C10_Witness ==
    /\ lastCall.op = "execute"
    /\ lastCall.kind = "evicted"
    /\ lastCall.len = maxHistorySize
    /\ Len(history) = maxHistorySize

(***************************************************************************)
(* Claims on the UndoRedoManager, continued.                               *)
(***************************************************************************)
\* C11: undo() called with currentIndex < 0 and redo() called with
\* currentIndex = history.length - 1 return false without throwing, leave
\* history, currentIndex and the document as they are and emit no
\* history-change notification
C11_BoundaryNoOps ==
    [][ /\ (Undo /\ currentIndex < 0)
            => /\ lastCall'.op = "undo"
               /\ lastCall'.kind = "false"
               /\ ~lastCall'.notified
               /\ UNCHANGED <<history, currentIndex, doc>>
        /\ (Redo /\ currentIndex = Len(history) - 1)
            => /\ lastCall'.op = "redo"
               /\ lastCall'.kind = "false"
               /\ ~lastCall'.notified
               /\ UNCHANGED <<history, currentIndex, doc>> ]_vars

\* redo() has just returned false with currentIndex on the last of the
\* entries of a history that is not empty
C11_Witness ==
    /\ lastCall.op = "redo"
    /\ lastCall.kind = "false"
    /\ history # <<>>
    /\ currentIndex = Len(history) - 1

\* the command types whose execute and undo set a value and always return
\* true
ValueTypes == {"textEdit", "styleChange", "attributeChange"}

\* C12: restoreSnapshot(id), for an id createSnapshot() returned, after any
\* execute / undo / redo calls, returns true and leaves currentIndex at the
\* value recorded in the snapshot (checked for histories of commands that
\* cannot fail)
C12_SnapshotRestores ==
    ( /\ lastCall.op = "restoreSnapshot"
      /\ \A k \in 1..Len(history) : history[k].type \in ValueTypes )
    => /\ lastCall.kind = "true"
       /\ ~hung
       /\ currentIndex = lastCall.target

\* C13: an undo() or redo() of a history entry that fails (it returns false,
\* or an operation of the entry throws) leaves the document and currentIndex
\* exactly as they were before the call: no operation of a failing batch
\* stays applied or inverted
C13_FailedUndoRedoChangesNothing ==
    [][ ( /\ Undo \/ Redo
          /\ lastCall'.op \in {"undo", "redo"}
          /\ lastCall'.kind \in {"false", "threw"} )
        => (doc' = doc /\ currentIndex' = currentIndex) ]_vars

\* C14: when syncChanges runs with the socket open and changeBuffer holds
\* changes, exactly one 'changes' message is written to the socket, with all
\* the changes of the buffer in the order they were queued, the client's
\* lastSyncedVersion and its author, and changeBuffer is empty afterwards;
\* when changeBuffer is empty nothing is sent
C14_FlushSendsOneMessage ==
    [][ \A c \in Clients :
          ((SyncChanges(c) \/ SyncInterval(c)) /\ readyState[c] = "OPEN")
          => /\ changeBuffer'[c] = << >>
             /\ sent'[c] =
                  IF changeBuffer[c] = << >>
                  THEN sent[c]
                  ELSE Append(sent[c],
                              [type |-> "changes",
                               changes |-> changeBuffer[c],
                               version |-> lastSyncedVersion[c],
                               author |-> c]) ]_vars

\* a client that had applied a remote change has flushed two changes in one
\* message
C14_Witness ==
    \E c \in Clients :
       /\ changeBuffer[c] = << >>
       /\ \E k \in 1..Len(sent[c]) :
             /\ Len(sent[c][k].changes) = 2
             /\ sent[c][k].changes[1].localSeq < sent[c][k].changes[2].localSeq
             /\ sent[c][k].version > 0

(***************************************************************************)
(* Claims on the CollaborationManager, under SpecCollab.                   *)
(***************************************************************************)
\* no apply threw and no send was rejected at either client
NoResync == \A c \in Clients : ~resyncRequested[c]

\* C1: convergence.  When both clients have observed the same set of
\* changes (each its own at creation, the other's through transform and
\* applyChange, hence possibly in different orders) and none of the applies
\* failed, the two materialized documents are identical.
C1_Convergence ==
    (applied["A"] = applied["B"] /\ NoResync) => cdoc["A"] = cdoc["B"]

\* C2: on an empty document, A inserts X at [0] and B concurrently inserts Y
\* at [0]; the server orders A's insert first.  Once both clients hold both
\* inserts, each has the child sequence [X, Y], and the later-ordered insert
\* was shifted from index 0 to index 1 where it was transformed against the
\* earlier one.
C2_ConcurrentInsertsOrdered ==
    ( /\ Len(serverLog) = 2
      /\ serverLog[1].author = "A"
      /\ serverLog[2].author = "B"
      /\ \A i \in 1..2 : /\ serverLog[i].type = "insert"
                         /\ serverLog[i].path = <<0>>
                         /\ serverLog[i].ctx = {}
      /\ \A c \in Clients : /\ applied[c] = {serverLog[1], serverLog[2]}
                            /\ Len(cdoc[c]) = 2 )
    => /\ \A c \in Clients :
             cdoc[c] = << Node("X", NoColor), Node("Y", NoColor) >>
       /\ (lastRemote.client = "A" /\ lastRemote.change = serverLog[2])
             => lastRemote.transformed.path = <<1>>

\* C3: when a client has applied a delete of the node at path [2] and then
\* handles a concurrent update whose path is [2] or a descendant of [2], the
\* transform yields the outcome Dropped and the update is applied to no
\* node: the client's document is as it was before the update was handled.
C3_UpdateUnderDeleteDropped ==
    ( /\ lastRemote.client \in Clients
      /\ lastRemote.overDelete
      /\ lastRemote.change.type = "update"
      /\ lastRemote.change.path[1] = 2 )
    => /\ lastRemote.transformed.type = "dropped"
       /\ lastRemote.after = lastRemote.before

\* C7: every change a client created is in its pendingChanges map under its
\* localSeq until the server acknowledges it (no acknowledgement exists in
\* the message types handleMessage knows, so every local change stays
\* unacknowledged).
C7_PendingHoldsUnacked ==
    \A c \in Clients :
       \A ch \in applied[c] :
          ch.author = c =>
             /\ ch.localSeq \in DOMAIN pendingChanges[c]
             /\ pendingChanges[c][ch.localSeq] = ch

(***************************************************************************)
(* Claims on the outbound and inbound channel of the CollaborationManager, *)
(* under SpecChannel.                                                      *)
(***************************************************************************)
\* C15: when the socket is not open, a flush of a non-empty buffer writes
\* nothing to the socket, leaves the changes of the batch at the front of
\* changeBuffer in their original order, and requests a resynchronization
C15_SendFailureRequeues ==
    [][ \A c \in Clients :
          ( (SyncChanges(c) \/ SyncInterval(c))
            /\ readyState[c] # "OPEN" /\ changeBuffer[c] # << >> )
          => /\ Len(changeBuffer'[c]) >= Len(changeBuffer[c])
             /\ SubSeq(changeBuffer'[c], 1, Len(changeBuffer[c]))
                   = changeBuffer[c]
             /\ sent'[c] = sent[c]
             /\ resyncRequested'[c] ]_vars

\* a failed flush has put a batch of two changes back, oldest first
C15_Witness ==
    \E c \in Clients :
       /\ resyncRequested[c]
       /\ readyState[c] # "OPEN"
       /\ Len(changeBuffer[c]) = 2
       /\ changeBuffer[c][1].localSeq < changeBuffer[c][2].localSeq
       /\ ~syncTimeout[c]

Occurrences(changes, ch) ==
    Cardinality({ k \in 1..Len(changes) : changes[k] = ch })

\* the changes client c passed to queueChanges
Queued(c) == { ch \in applied[c] : ch.author = c }

\* C18: every change passed to queueChanges is either once in changeBuffer
\* and in no message written to the socket, or once in the messages written
\* to the socket and not in changeBuffer; nothing else is in either
C18_BufferedChangesPreserved ==
    \A c \in Clients :
       /\ \A ch \in Queued(c) :
             Occurrences(changeBuffer[c], ch)
               + Occurrences(ChangesOf(sent[c]), ch) = 1
       /\ Len(changeBuffer[c]) + Len(ChangesOf(sent[c]))
             = Cardinality(Queued(c))

\* after a flush that failed on a socket not yet open, the socket has
\* opened and one of the requeued changes has been written to it while a
\* later one waits in the buffer
C18_Witness ==
    \E c \in Clients :
       /\ resyncRequested[c]
       /\ readyState[c] = "OPEN"
       /\ sent[c] # << >>
       /\ changeBuffer[c] # << >>

\* C19: a request for resynchronization cancels the flush timer, and from
\* the request on the client writes no 'changes' message to the socket (the
\* model never completes a resynchronization)
C19_ResyncExcludesFlush ==
    [][ \A c \in Clients :
          /\ (resyncRequested'[c] /\ ~resyncRequested[c]) => ~syncTimeout'[c]
          /\ resyncRequested[c] => sent'[c] = sent[c] ]_vars

(***************************************************************************)
(* Claims on conflict resolution, under SpecConflict.                      *)
(***************************************************************************)
\* the changeIds of a sequence of sendResolution calls
ResolvedIds(calls) == { calls[k].changeId : k \in 1..Len(calls) }

\* the changeIds of a sequence of notifyConflictError calls
ErrorIds(calls) == { calls[k] : k \in 1..Len(calls) }

\* C20: once handleConflict has finished for a 'conflict' message with a
\* registered strategy that threw or rejected, no resolution was sent for
\* its changeId and notifyConflictError was called with that changeId; and
\* every resolution sent belongs to a message whose registered strategy
\* returned a value, and carries that value
C20_FailedStrategyReported ==
    \A c \in Clients :
       /\ \A k \in conflicts[c] :
             ( k.settled /\ k.conflictType \in ConflictStrategies
               /\ k.result.threw )
             => /\ k.changeId \notin ResolvedIds(resolutions[c])
                /\ k.changeId \in ErrorIds(conflictErrors[c])
       /\ \A i \in 1..Len(resolutions[c]) :
             \E k \in conflicts[c] :
                /\ k.changeId = resolutions[c][i].changeId
                /\ k.conflictType \in ConflictStrategies
                /\ ~k.result.threw
                /\ k.result.value = resolutions[c][i].resolution

\* a client has handled one conflict whose strategy threw and one whose
\* strategy returned a value
C20_Witness ==
    \E c \in Clients :
       /\ conflictErrors[c] # << >>
       /\ resolutions[c] # << >>
       /\ \A k \in conflicts[c] : k.settled

\* C21: once handleConflict has finished for a 'conflict' message whose
\* conflictType has no registered strategy, the conflict was reported
\* upward with its changeId
C21_UnregisteredTypeReported ==
    \A c \in Clients :
       \A k \in conflicts[c] :
          (k.settled /\ k.conflictType \notin ConflictStrategies)
          => k.changeId \in ErrorIds(conflictErrors[c])

(***************************************************************************)
(* Claims on the HistoryManager, under SpecHistory.                        *)
(***************************************************************************)
\* C22: while a batch records, addToBatch leaves history and currentIndex
\* alone; commitBatch of a recording batch adds one entry that holds the
\* accumulated actions in call order, and ends recording; cancelBatch
\* pushes nothing and drops the accumulated actions; and an undo() right
\* after such a commitBatch leaves the StateManager with the state recorded
\* by the entry before the batch entry
C22_HistoryManagerBatching ==
    /\ (hmLastCall.op = "addToBatch" /\ Len(hmLastCall.batchOperations)
           < Len(hmBatchOperations))
       => /\ hmHistory = hmLastCall.history
          /\ hmCurrentIndex = hmLastCall.currentIndex
          /\ SubSeq(hmBatchOperations, 1, Len(hmLastCall.batchOperations))
                = hmLastCall.batchOperations
    /\ (hmLastCall.op = "commitBatch" /\ hmHistory # hmLastCall.history)
       => /\ hmHistory = Append(SubSeq(hmLastCall.history, 1,
                                       hmLastCall.currentIndex + 1),
                                hmHistory[Len(hmHistory)])
          /\ hmHistory[Len(hmHistory)].operations
                = hmLastCall.batchOperations
          /\ hmCurrentIndex = Len(hmHistory) - 1
          /\ ~hmIsRecording
    /\ hmLastCall.op = "cancelBatch"
       => /\ hmHistory = hmLastCall.history
          /\ hmCurrentIndex = hmLastCall.currentIndex
          /\ hmBatchOperations = << >>
          /\ ~hmIsRecording
    /\ ( hmLastCall.op = "undo"
         /\ hmLastCall.currentIndex = Len(hmLastCall.history) - 1
         /\ hmLastCall.currentIndex > 0
         /\ hmLastCall.history[Len(hmLastCall.history)].type
               = "BATCH_OPERATION" )
       => /\ ~hmLastCall.threw
          /\ SerializeState(smState)
                = hmLastCall.history[hmLastCall.currentIndex].state

(***************************************************************************)
(* Further claims on the UndoRedoManager.                                  *)
(***************************************************************************)
\* the operations of a batch command in the order of its operations array:
\* what each operation is and the state it was created with
OperationOrder(command) ==
    [k \in 1..Len(command.ops) |->
        << command.ops[k].type, command.ops[k].state >>]

\* C23: the batch command walks its operations array forward in execute and
\* in the reverse of the array order in undo, and endBatch executes the
\* array as built (o1..on).  Every later redo is forward o1..on and every
\* later undo on..o1 exactly when no undo() or redo() changes the order of
\* the array of a batch entry
C23_BatchOrderStable ==
    [][ (Undo \/ Redo)
        => \A k \in 1..Len(history) :
              history[k].type = "batch"
              => OperationOrder(history'[k]) = OperationOrder(history[k]) ]_vars

\* C24: an execute that combines its command with the entry on top of
\* history leaves history.length and currentIndex as they are, and the
\* entry then stands for both edits: after undo(), redo() gives the element
\* the text of the latest edit, which the entry's state holds as its new text
C24_FusedEntryRedo ==
    [][ /\ ( /\ Execute
             /\ lastCall'.kind = "combined"
             /\ currentIndex = Len(history) - 1 )
           => /\ Len(history') = Len(history)
              /\ currentIndex' = currentIndex
        /\ ( /\ Redo
             /\ lastCall.op = "undo"
             /\ lastCall.kind = "true"
             /\ lastCall.prevOp = "execute"
             /\ lastCall.prev = "combined" )
           => /\ lastCall'.kind = "true"
              /\ doc'.text[history[currentIndex + 2].state.element]
                    = history[currentIndex + 2].state.new ]_vars

\* C25: after setMaxHistorySize(size), history is no longer than size and
\* currentIndex lies between -1 and history.length - 1
C25_ResizeKeepsCursorValid ==
    [][ SetMaxHistorySize
        => /\ Len(history') <= maxHistorySize'
           /\ -1 <= currentIndex'
           /\ currentIndex' <= Len(history') - 1 ]_vars

\* C26: restoreSnapshot(id) of an existing snapshot comes to an end: the
\* event loop is never left inside one of its two loops
C26_RestoreTerminates == ~hung

\* C27: an execute(command) whose command.execute() returns false leaves
\* history and currentIndex exactly as they were
C27_FailedExecuteKeepsLedger ==
    [][ (ExecuteGuarded /\ lastCall'.kind = "failed")
        => (history' = history /\ currentIndex' = currentIndex) ]_vars

(***************************************************************************)
(* Claims on the flush timer, under SpecFlush.                             *)
(***************************************************************************)
\* every change client c passed to queueChanges is in a message written to
\* the socket
AllQueuedSent(c) ==
    \A ch \in Queued(c) : Occurrences(ChangesOf(sent[c]), ch) = 1

ManagerCalls == {"undo", "redo", "execute"}

\* C29: while recording is enabled, the records that undo(), redo() or the
\* command.execute() of execute() queued are not turned into history entries
\* by the callback: a callback that handles such records leaves history and
\* currentIndex as they are, so that history.length is unchanged and what
\* could be redone still can
C29_UndoRedoNotRecorded ==
    [][ (ObserverCallback /\ records[1].by \in ManagerCalls)
        => /\ history' = history
           /\ currentIndex' = currentIndex ]_vars

\* C30: the callback calls execute exactly once for every added node, every
\* removed node and every attribute change of the records it handles, and
\* never pushes more entries than that
C30_OneEntryPerChange ==
    /\ lastCallback.executes = lastCallback.changes
    /\ lastCallback.pushes <= lastCallback.changes

====
